---- MODULE Spec2Model ----
(***************************************************************************)
(* Verification model of the multi-agent orchestration core of             *)
(* docuforge-ai (backend/app/agents): the pipeline state machine and       *)
(* preview policy (agent_states.py), the provider router (llm_router.py),  *)
(* the agent configuration (agent_config.py) and the orchestrator          *)
(* (document_orchestrator.py).                                             *)
(***************************************************************************)
EXTENDS Integers, Sequences, FiniteSets, TLC

VARIABLES
    agent_state_manager,      \* the process-wide AgentStateManager (agent_states.py:217)
    preview_decision_engine,  \* the process-wide PreviewUpdateDecision (agent_states.py:218)
    llm_router,               \* an LLMRouter: its config and its adapters (llm_router.py:348)
    agent_config_manager,     \* the process-wide AgentConfigManager (agent_config.py:150)
    orch,                     \* the DocumentOrchestrator of each request (ai.py:439, 509)
    now,                      \* datetime.utcnow(), in seconds
    probe                     \* the most recent direct API call and what it returned

vars ==
    <<agent_state_manager, preview_decision_engine, llm_router, agent_config_manager, orch, now,
      probe>>

None == "None"

Last(s) == s[Len(s)]

(***************************************************************************)
(* Bounds of the model.                                                    *)
(***************************************************************************)
MaxHistory == 3      \* transition_to calls explored by the state-manager specification
MaxNow == 30         \* the clock stops here
TickSeconds == 30    \* granularity of the clock

(***************************************************************************)
(* agent_states.py: AgentState, AgentAction                                *)
(***************************************************************************)
IDLE == "idle"
ANALYZING == "analyzing"
PLANNING == "planning"
WRITING == "writing"
REVIEWING == "reviewing"
UPDATING_PREVIEW == "updating_preview"
WAITING_FEEDBACK == "waiting_feedback"
ERROR == "error"

AgentState ==
    {IDLE, ANALYZING, PLANNING, WRITING, REVIEWING, UPDATING_PREVIEW, WAITING_FEEDBACK, ERROR}

ANALYZE_REQUEST == "analyze_request"
CREATE_PLAN == "create_plan"
UPDATE_PLAN == "update_plan"
WRITE_CONTENT == "write_content"
REVIEW_CONTENT == "review_content"
UPDATE_PREVIEW == "update_preview"
REQUEST_FEEDBACK == "request_feedback"
HANDLE_ERROR == "handle_error"

AgentAction ==
    {ANALYZE_REQUEST, CREATE_PLAN, UPDATE_PLAN, WRITE_CONTENT, REVIEW_CONTENT,
     UPDATE_PREVIEW, REQUEST_FEEDBACK, HANDLE_ERROR}

(***************************************************************************)
(* agent_config.py: AgentType                                              *)
(***************************************************************************)
ORCHESTRATOR == "orchestrator"
PLANNER == "planner"
WRITER == "writer"
REVIEWER == "reviewer"

AgentType == <<ORCHESTRATOR, PLANNER, WRITER, REVIEWER>>

AgentTypes == {AgentType[i] : i \in 1..Len(AgentType)}

(***************************************************************************)
(* agent_states.py: AgentStateManager                                      *)
(***************************************************************************)
AgentStateManagerInit ==
    [current_state |-> IDLE,
     previous_states |-> <<>>,
     state_history |-> <<>>,
     current_agent |-> None,
     message_queue |-> <<>>]

\* transition_to with the recorded from_state taken from the new state
\* instead of the state before the call
transition_to_from_new(sm, new_state, agent_type, message, t) ==
    IF sm.current_state # new_state
    THEN [sm EXCEPT
            !.previous_states = Append(@, sm.current_state),
            !.current_state = new_state,
            !.current_agent = agent_type,
            !.state_history = Append(@,
                [timestamp |-> t, from_state |-> new_state, to_state |-> new_state,
                 agent |-> agent_type, message |-> message])]
    ELSE sm

\* AgentStateManager.transition_to: the state manager after the call
\* (the call returns nothing)
transition_to(sm, new_state, agent_type, message, t) ==
    IF sm.current_state # new_state
    THEN LET ps == Append(sm.previous_states, sm.current_state)
         IN  [sm EXCEPT
                !.previous_states = ps,
                !.current_state = new_state,
                !.current_agent = agent_type,
                !.state_history = Append(@,
                    [timestamp |-> t,
                     from_state |-> IF ps # <<>> THEN Last(ps) ELSE None,
                     to_state |-> new_state,
                     agent |-> agent_type,
                     message |-> message])]
    ELSE sm

InList(x, list) == \E i \in 1..Len(list) : list[i] = x

allowed_transitions ==
    [s \in AgentState |->
        CASE s = IDLE -> <<ANALYZING>>
          [] s = ANALYZING -> <<PLANNING, WRITING, ERROR>>
          [] s = PLANNING -> <<WRITING, ERROR>>
          [] s = WRITING -> <<REVIEWING, UPDATING_PREVIEW, ERROR>>
          [] s = REVIEWING -> <<WRITING, UPDATING_PREVIEW, WAITING_FEEDBACK, ERROR>>
          [] s = UPDATING_PREVIEW -> <<IDLE, WAITING_FEEDBACK>>
          [] s = WAITING_FEEDBACK -> <<ANALYZING, IDLE>>
          [] s = ERROR -> <<IDLE, ANALYZING>>]

\* can_transition_to that also allows staying in the current state
can_transition_to_reflexive(sm, new_state) ==
    new_state = sm.current_state \/ InList(new_state, allowed_transitions[sm.current_state])

\* AgentStateManager.can_transition_to
can_transition_to(sm, new_state) ==
    IF sm.current_state \in DOMAIN allowed_transitions
    THEN InList(new_state, allowed_transitions[sm.current_state])
    ELSE FALSE

\* AgentStateManager.is_busy
is_busy(sm) == ~InList(sm.current_state, <<IDLE, WAITING_FEEDBACK>>)

\* AgentStateManager.add_message
add_message(sm, message) == [sm EXCEPT !.message_queue = Append(@, message)]

(***************************************************************************)
(* agent_states.py: PreviewUpdateDecision                                  *)
(***************************************************************************)
min_update_interval == 30

\* Optional[datetime]: <<>> for None, <<t>> for the time t
Never == <<>>
At(t) == <<t>>

PreviewUpdateDecisionInit ==
    [last_update_time |-> Never,
     min_update_interval |-> min_update_interval,
     force_update_triggers |-> <<IDLE, WAITING_FEEDBACK>>]

\* should_update_preview with ">= 100" for the content-change threshold
should_update_preview_ge(pde, current_state, last_action, time_since_last_update, content_changes, user_requested) ==
    IF user_requested THEN TRUE
    ELSE IF InList(current_state, pde.force_update_triggers) THEN TRUE
    ELSE IF content_changes >= 100 /\ time_since_last_update >= pde.min_update_interval
         THEN TRUE
    ELSE IF last_action = WRITE_CONTENT /\ time_since_last_update >= pde.min_update_interval
         THEN TRUE
    ELSE IF last_action = REVIEW_CONTENT THEN TRUE
    ELSE FALSE

\* PreviewUpdateDecision.should_update_preview
should_update_preview(pde, current_state, last_action, time_since_last_update, content_changes, user_requested) ==
    IF user_requested THEN TRUE
    ELSE IF InList(current_state, pde.force_update_triggers) THEN TRUE
    ELSE IF content_changes > 100 /\ time_since_last_update >= pde.min_update_interval
         THEN TRUE
    ELSE IF last_action = WRITE_CONTENT /\ time_since_last_update >= pde.min_update_interval
         THEN TRUE
    ELSE IF last_action = REVIEW_CONTENT THEN TRUE
    ELSE FALSE

\* PreviewUpdateDecision.record_update
record_update(pde, t) == [pde EXCEPT !.last_update_time = At(t)]

(***************************************************************************)
(* agent_config.py: LLMProvider, AgentConfig, AgentConfigManager           *)
(***************************************************************************)
LLMProvider == <<"openai", "claude", "google", "mock">>

DefaultAgentConfig ==
    [orchestrator_llm |-> "google", orchestrator_model |-> "gemini-2.5-pro",
     planner_llm |-> "google", planner_model |-> "gemini-2.5-pro",
     writer_llm |-> "google", writer_model |-> "gemini-2.5-pro",
     reviewer_llm |-> "google", reviewer_model |-> "gemini-2.5-pro",
     fallback_llm |-> "mock", fallback_model |-> "mock",
     max_retries |-> 3, timeout_seconds |-> 30]

\* AgentConfig.get_llm_for_agent
get_llm_for_agent(config, agent_type) ==
    CASE agent_type = ORCHESTRATOR -> <<config.orchestrator_llm, config.orchestrator_model>>
      [] agent_type = PLANNER -> <<config.planner_llm, config.planner_model>>
      [] agent_type = WRITER -> <<config.writer_llm, config.writer_model>>
      [] agent_type = REVIEWER -> <<config.reviewer_llm, config.reviewer_model>>
      [] OTHER -> <<config.fallback_llm, config.fallback_model>>

\* The loop of validate_config over AgentType, from the i-th category on:
\* the first category whose provider is not a known one, or None.
RECURSIVE FirstInvalidAgent(_, _)
FirstInvalidAgent(config, i) ==
    IF i > Len(AgentType) THEN None
    ELSE IF ~InList(get_llm_for_agent(config, AgentType[i])[1], LLMProvider)
         THEN AgentType[i]
    ELSE FirstInvalidAgent(config, i + 1)

\* AgentConfigManager.validate_config: the pair (valid, reason)
validate_config(config) ==
    LET bad == FirstInvalidAgent(config, 1)
    IN  IF bad # None
        THEN <<FALSE, <<"Invalid provider", get_llm_for_agent(config, bad)[1], bad>>>>
        ELSE IF config.max_retries < 1
             THEN <<FALSE, "max_retries must be at least 1">>
        ELSE IF config.timeout_seconds < 5
             THEN <<FALSE, "timeout_seconds must be at least 5">>
        ELSE <<TRUE, None>>

\* The fields of the dataclass AgentConfig, in the order of their declaration.
AgentConfigFields ==
    <<"orchestrator_llm", "orchestrator_model", "planner_llm", "planner_model",
      "writer_llm", "writer_model", "reviewer_llm", "reviewer_model",
      "fallback_llm", "fallback_model", "max_retries", "timeout_seconds">>

\* A Python dict is the sequence of its <<key, value>> items, in insertion
\* order; DictHas is "key in data", DictGet is data[key].
DictHas(data, key) == \E i \in 1..Len(data) : data[i][1] = key

DictGet(data, key) == data[CHOOSE i \in 1..Len(data) : data[i][1] = key][2]

\* dict.update(updates): the value of a key that is there is replaced in
\* place, a new key is added at the end
RECURSIVE dict_update(_, _)
dict_update(data, updates) ==
    IF updates = <<>> THEN data
    ELSE LET item == Head(updates)
             merged ==
                 IF DictHas(data, item[1])
                 THEN [i \in 1..Len(data) |->
                          IF data[i][1] = item[1] THEN item ELSE data[i]]
                 ELSE Append(data, item)
         IN  dict_update(merged, Tail(updates))

\* the to_dict that stores the fallback provider under "fallback_model" too
to_dict_fallback_model_from_llm(config) ==
    <<<<"orchestrator_llm", config.orchestrator_llm>>,
      <<"orchestrator_model", config.orchestrator_model>>,
      <<"planner_llm", config.planner_llm>>,
      <<"planner_model", config.planner_model>>,
      <<"writer_llm", config.writer_llm>>,
      <<"writer_model", config.writer_model>>,
      <<"reviewer_llm", config.reviewer_llm>>,
      <<"reviewer_model", config.reviewer_model>>,
      <<"fallback_llm", config.fallback_llm>>,
      <<"fallback_model", config.fallback_llm>>,
      <<"max_retries", config.max_retries>>,
      <<"timeout_seconds", config.timeout_seconds>>>>

\* AgentConfig.to_dict
to_dict(config) ==
    <<<<"orchestrator_llm", config.orchestrator_llm>>,
      <<"orchestrator_model", config.orchestrator_model>>,
      <<"planner_llm", config.planner_llm>>,
      <<"planner_model", config.planner_model>>,
      <<"writer_llm", config.writer_llm>>,
      <<"writer_model", config.writer_model>>,
      <<"reviewer_llm", config.reviewer_llm>>,
      <<"reviewer_model", config.reviewer_model>>,
      <<"fallback_llm", config.fallback_llm>>,
      <<"fallback_model", config.fallback_model>>,
      <<"max_retries", config.max_retries>>,
      <<"timeout_seconds", config.timeout_seconds>>>>

\* AgentConfig.from_dict, cls(**data): a key that is not a field raises
\* TypeError, a field that is not given takes its default, and no value is
\* checked
from_dict(data) ==
    IF \E i \in 1..Len(data) : ~InList(data[i][1], AgentConfigFields)
    THEN [raised |-> TRUE, config |-> <<>>]
    ELSE [raised |-> FALSE,
          config |-> <<[k \in {AgentConfigFields[j] : j \in 1..Len(AgentConfigFields)} |->
                          IF DictHas(data, k) THEN DictGet(data, k)
                          ELSE DefaultAgentConfig[k]]>>]

\* document_id: Optional[int] is <<>> for None and <<n>> for n; Truthy is
\* the condition "if document_id"
Truthy(document_id) == document_id # <<>> /\ document_id[1] # 0

\* AgentConfigManager.__init__; _document_configs is the set of its
\* <<document_id, config>> items
AgentConfigManagerInit ==
    [default_config |-> DefaultAgentConfig, document_configs |-> {}]

\* AgentConfigManager.get_config
get_config(manager, document_id) ==
    IF Truthy(document_id) /\ \E e \in manager.document_configs : e[1] = document_id[1]
    THEN (CHOOSE e \in manager.document_configs : e[1] = document_id[1])[2]
    ELSE manager.default_config

\* AgentConfigManager.set_config: the manager after the call
set_config(manager, config, document_id) ==
    IF Truthy(document_id)
    THEN [manager EXCEPT !.document_configs =
             {e \in @ : e[1] # document_id[1]} \cup {<<document_id[1], config>>}]
    ELSE [manager EXCEPT !.default_config = config]

\* AgentConfigManager.update_config: the manager after the call, and
\* whether the call raised
update_config(manager, updates, document_id) ==
    LET current_config == get_config(manager, document_id)
        config_dict == dict_update(to_dict(current_config), updates)
        new_config == from_dict(config_dict)
    IN  IF new_config.raised
        THEN [raised |-> TRUE, manager |-> manager]
        ELSE [raised |-> FALSE,
              manager |-> set_config(manager, new_config.config[1], document_id)]

(***************************************************************************)
(* llm_router.py: the adapters and LLMRouter                             *)
(***************************************************************************)
\* What one adapter call does: return a text, possibly the empty one, or raise.
AdapterOutcomes ==
    {[raised |-> FALSE, text |-> "generated text"],
     [raised |-> FALSE, text |-> ""],
     [raised |-> TRUE, text |-> None]}

\* messages[-1]["content"] if messages else default
LastContent(messages, default) ==
    IF messages # <<>> THEN Last(messages).content ELSE default

\* MockAdapter.generate
MockAdapter_generate(messages) ==
    [raised |-> FALSE,
     text |-> "Mock response to: " \o LastContent(messages, "Hello") \o "..."]

\* adapters[provider].generate(messages, model): the mock adapter answers by
\* itself, every other adapter with what its service does (outcome)
adapter_generate(provider, messages, outcome) ==
    IF provider = "mock" THEN MockAdapter_generate(messages) ELSE outcome

MockFallbackApology(messages) ==
    "I apologize, but I'm currently experiencing issues connecting to the AI service. Your request '"
    \o LastContent(messages, "unknown request")
    \o "' has been received, but I cannot generate the full content right now. Please try again in a few moments. The system will continue to save any generated content."

FinalApology ==
    "I apologize, but I'm currently unable to process your request due to AI service issues. Please try again later."

\* LLMRouter._initialize_adapters: the mock adapter is always there, the
\* others when their credentials are configured
LLMRouterInit == [config |-> DefaultAgentConfig, adapters |-> {"mock"}]

\* route_request whose fallback call is outside the try block
route_request_unguarded_fallback(router, agent_type, messages, primary_outcome, fallback_outcome) ==
    LET pm == get_llm_for_agent(router.config, agent_type)
        tried == pm[1] \in router.adapters
        first == adapter_generate(pm[1], messages, primary_outcome)
        fb == router.config.fallback_llm
        second == adapter_generate(fb, messages, fallback_outcome)
    IN  IF tried /\ ~first.raised
        THEN [raised |-> FALSE, ret |-> first.text, invoked |-> <<pm>>]
        ELSE IF fb \in router.adapters
             THEN [raised |-> second.raised, ret |-> second.text,
                   invoked |-> (IF tried THEN <<pm>> ELSE <<>>)
                               \o <<<<fb, router.config.fallback_model>>>>]
        ELSE [raised |-> FALSE, ret |-> FinalApology,
              invoked |-> IF tried THEN <<pm>> ELSE <<>>]

\* route_request that tries the primary adapter a second time before it
\* falls back
route_request_retry_primary(router, agent_type, messages, primary_outcome, fallback_outcome) ==
    LET pm == get_llm_for_agent(router.config, agent_type)
        tried == pm[1] \in router.adapters
        first == adapter_generate(pm[1], messages, primary_outcome)
        called1 == IF tried THEN <<pm, pm>> ELSE <<>>
        fb == router.config.fallback_llm
        second == adapter_generate(fb, messages, fallback_outcome)
    IN  IF tried /\ ~first.raised
        THEN [raised |-> FALSE, ret |-> first.text, invoked |-> <<pm>>]
        ELSE IF fb \in router.adapters
             THEN IF fb = "mock"
                  THEN [raised |-> FALSE, ret |-> MockFallbackApology(messages),
                        invoked |-> called1]
                  ELSE IF ~second.raised
                       THEN [raised |-> FALSE, ret |-> second.text,
                             invoked |-> called1 \o <<<<fb, router.config.fallback_model>>>>]
                  ELSE [raised |-> FALSE, ret |-> FinalApology,
                        invoked |-> called1 \o <<<<fb, router.config.fallback_model>>>>]
        ELSE [raised |-> FALSE, ret |-> FinalApology, invoked |-> called1]

\* LLMRouter.route_request: what the call returns (ret), whether it raises,
\* and the adapter calls it made, in order
route_request(router, agent_type, messages, primary_outcome, fallback_outcome) ==
    LET pm == get_llm_for_agent(router.config, agent_type)
        tried == pm[1] \in router.adapters
        first == adapter_generate(pm[1], messages, primary_outcome)
        called1 == IF tried THEN <<pm>> ELSE <<>>
        fb == router.config.fallback_llm
        second == adapter_generate(fb, messages, fallback_outcome)
    IN  IF tried /\ ~first.raised
        THEN [raised |-> FALSE, ret |-> first.text, invoked |-> called1]
        ELSE IF fb \in router.adapters
             THEN IF fb = "mock"
                  THEN [raised |-> FALSE, ret |-> MockFallbackApology(messages),
                        invoked |-> called1]
                  ELSE IF ~second.raised
                       THEN [raised |-> FALSE, ret |-> second.text,
                             invoked |-> called1 \o <<<<fb, router.config.fallback_model>>>>]
                  ELSE [raised |-> FALSE, ret |-> FinalApology,
                        invoked |-> called1 \o <<<<fb, router.config.fallback_model>>>>]
        ELSE [raised |-> FALSE, ret |-> FinalApology, invoked |-> called1]

\* What one stream_generate call of an adapter does: it yields fragments and
\* ends; or it fails inside, which the adapters of the repository turn into
\* a last fragment with the error text; or it raises, before or after
\* fragments, which the interface allows and the router provides for.
StreamOutcomes ==
    {[raised |-> FALSE, fragments |-> <<"generated ", "text">>],
     [raised |-> FALSE, fragments |-> <<"generated ", "Error streaming response: failure">>],
     [raised |-> TRUE, fragments |-> <<>>],
     [raised |-> TRUE, fragments |-> <<"generated ">>]}

\* content.split() for the contents of the explored messages
split_words(content) ==
    CASE content = "Hello" -> <<"Hello">>
      [] content = "write a report" -> <<"write", "a", "report">>

\* MockAdapter.stream_generate: the words of MockAdapter.generate, each
\* followed by a blank
MockAdapter_stream_generate(messages) ==
    LET content == split_words(LastContent(messages, "Hello"))
        words == <<"Mock", "response", "to:">>
                 \o SubSeq(content, 1, Len(content) - 1)
                 \o <<Last(content) \o "...">>
    IN  [raised |-> FALSE, fragments |-> [i \in 1..Len(words) |-> words[i] \o " "]]

\* adapters[provider].stream_generate(messages, model)
adapter_stream_generate(provider, messages, outcome) ==
    IF provider = "mock" THEN MockAdapter_stream_generate(messages) ELSE outcome

\* LLMRouter.stream_route_request: the fragments it yields, whether it ends
\* by raising, and the adapter calls it made
stream_route_request(router, agent_type, messages, primary_outcome, fallback_outcome) ==
    LET pm == get_llm_for_agent(router.config, agent_type)
        tried == pm[1] \in router.adapters
        first == adapter_stream_generate(pm[1], messages, primary_outcome)
        called1 == IF tried THEN <<pm>> ELSE <<>>
        yielded1 == IF tried THEN first.fragments ELSE <<>>
        fb == router.config.fallback_llm
        second == adapter_stream_generate(fb, messages, fallback_outcome)
    IN  IF tried /\ ~first.raised
        THEN [raised |-> FALSE, fragments |-> first.fragments, invoked |-> called1]
        ELSE IF fb \in router.adapters
             THEN [raised |-> second.raised,
                   fragments |-> yielded1 \o second.fragments,
                   invoked |-> called1 \o <<<<fb, router.config.fallback_model>>>>]
        ELSE [raised |-> FALSE,
              fragments |-> yielded1 \o <<"Error: No available LLM providers">>,
              invoked |-> called1]

(***************************************************************************)
(* document_orchestrator.py: _analyze_request                              *)
(* Strings that the code inspects are sequences of one-character strings.  *)
(***************************************************************************)
NoMessage == <<None>>      \* user_message is None

\* str.lower(), on the letters the explored messages use
LowerChar(c) ==
    CASE c = "H" -> "h"
      [] c = "R" -> "r"
      [] c = "S" -> "s"
      [] c = "T" -> "t"
      [] c = "W" -> "w"
      [] OTHER -> c

lower(s) == [i \in 1..Len(s) |-> LowerChar(s[i])]

\* str.strip(): blanks and line ends are taken off both ends
IsSpace(c) == c \in {" ", "\n"}

RECURSIVE lstrip(_)
lstrip(s) == IF s # <<>> /\ IsSpace(s[1]) THEN lstrip(Tail(s)) ELSE s

RECURSIVE rstrip(_)
rstrip(s) == IF s # <<>> /\ IsSpace(Last(s)) THEN rstrip(SubSeq(s, 1, Len(s) - 1)) ELSE s

strip(s) == rstrip(lstrip(s))

\* len(s.split()): the number of maximal runs of non-blank characters
WordCount(s) ==
    Cardinality({i \in 1..Len(s) : s[i] # " " /\ (i = 1 \/ s[i - 1] = " ")})

\* sub in s
Contains(s, sub) ==
    \E i \in 0..(Len(s) - Len(sub)) : SubSeq(s, i + 1, i + Len(sub)) = sub

\* any(k in s for k in keywords)
AnyIn(keywords, s) == \E j \in 1..Len(keywords) : Contains(s, keywords[j])

\* The keyword lists of the rule-based classification, as character sequences.
simple_phrases ==
    <<<<"h", "i">>, <<"h", "e", "l", "l", "o">>,
      <<"h", "e", "y">>, <<"t", "h", "a", "n", "k", "s">>,
      <<"t", "h", "a", "n", "k", " ", "y", "o", "u">>, <<"h", "o", "w", " ", "a", "r", "e", " ", "y", "o", "u">>,
      <<"g", "o", "o", "d", " ", "m", "o", "r", "n", "i", "n", "g">>, <<"g", "o", "o", "d", " ", "a", "f", "t", "e", "r", "n", "o", "o", "n">>>>

document_creation_keywords ==
    <<<<"w", "r", "i", "t", "e">>, <<"c", "r", "e", "a", "t", "e">>,
      <<"d", "r", "a", "f", "t">>, <<"g", "e", "n", "e", "r", "a", "t", "e">>,
      <<"m", "a", "k", "e">>, <<"c", "o", "m", "p", "o", "s", "e">>,
      <<"d", "e", "v", "e", "l", "o", "p">>, <<"s", "t", "r", "u", "c", "t", "u", "r", "e">>,
      <<"t", "e", "m", "p", "l", "a", "t", "e">>, <<"o", "u", "t", "l", "i", "n", "e">>,
      <<"p", "r", "o", "p", "o", "s", "a", "l">>, <<"r", "e", "p", "o", "r", "t">>,
      <<"d", "o", "c", "u", "m", "e", "n", "t">>, <<"c", "o", "n", "t", "e", "n", "t">>,
      <<"t", "e", "x", "t">>, <<"l", "e", "t", "t", "e", "r">>,
      <<"e", "m", "a", "i", "l">>, <<"p", "l", "a", "n">>,
      <<"s", "t", "r", "a", "t", "e", "g", "y">>, <<"s", "u", "m", "m", "a", "r", "y">>>>

template_keywords ==
    <<<<"t", "e", "m", "p", "l", "a", "t", "e">>, <<"s", "t", "r", "u", "c", "t", "u", "r", "e">>,
      <<"o", "u", "t", "l", "i", "n", "e">>, <<"f", "o", "r", "m", "a", "t">>,
      <<"e", "x", "a", "m", "p", "l", "e">>>>

question_patterns ==
    <<<<"w", "h", "a", "t">>, <<"h", "o", "w">>,
      <<"w", "h", "y">>, <<"w", "h", "e", "n">>,
      <<"w", "h", "e", "r", "e">>, <<"w", "h", "o">>,
      <<"e", "x", "p", "l", "a", "i", "n">>, <<"t", "e", "l", "l", " ", "m", "e">>,
      <<"c", "a", "n", " ", "y", "o", "u", " ", "h", "e", "l", "p">>, <<"h", "o", "w", " ", "d", "o", "e", "s">>,
      <<"w", "h", "a", "t", " ", "i", "s">>, <<"w", "h", "a", "t", " ", "a", "r", "e">>>>

Classification(intent, action_needed, confidence, planning, writing, review) ==
    [intent |-> intent, action_needed |-> action_needed, confidence |-> confidence,
     requires_planning |-> planning, requires_writing |-> writing,
     requires_review |-> review]

\* the except branch of _analyze_request: the rule-based classification
fallback_analysis(message) ==
    LET user_message == strip(lower(message))
        is_simple_greeting ==
            WordCount(user_message) <= 3 /\ AnyIn(simple_phrases, user_message)
        requires_document_creation == AnyIn(document_creation_keywords, user_message)
        is_template_request == AnyIn(template_keywords, user_message)
        is_question_only ==
            AnyIn(question_patterns, user_message) /\ ~requires_document_creation
    IN  IF is_simple_greeting
        THEN Classification("conversation", "respond", "0.8", FALSE, FALSE, FALSE)
        ELSE IF requires_document_creation
             THEN Classification("create_document", "write", "0.7", FALSE, TRUE, TRUE)
        ELSE IF is_question_only
             THEN Classification("ask_question", "respond", "0.6", FALSE, FALSE, FALSE)
        ELSE Classification("general_assistance", "respond", "0.5", FALSE, TRUE, TRUE)

\* What the orchestrator's model answers to the analysis prompt: an object
\* with the three flags (a flag that is missing reads as false), written as
\* JSON (json) or as a Python expression that is not JSON, such as
\* {'requires_writing': True}; or text that neither json.loads nor eval
\* turns into an object.
AnalysisResponses ==
    {[parsed |-> FALSE, json |-> FALSE, requires_planning |-> FALSE,
      requires_writing |-> FALSE, requires_review |-> FALSE]}
    \cup [parsed : {TRUE}, json : BOOLEAN, requires_planning : BOOLEAN,
          requires_writing : BOOLEAN, requires_review : BOOLEAN]

\* _analyze_request, given the response of route_request: the analysis, or
\* the exception that leaves the method (the fallback reads
\* self.context.user_message.lower()); evaluated tells that eval was called
\* with the response, which happens whenever json.loads fails
analyze_request(user_message, response) ==
    IF response.parsed
    THEN [raised |-> FALSE, evaluated |-> ~response.json,
          analysis |-> Classification("from_model", "from_model", "from_model",
                                      response.requires_planning,
                                      response.requires_writing,
                                      response.requires_review)]
    ELSE IF user_message = NoMessage
         THEN [raised |-> TRUE, evaluated |-> TRUE, analysis |-> None]
    ELSE [raised |-> FALSE, evaluated |-> TRUE, analysis |-> fallback_analysis(user_message)]

(***************************************************************************)
(* document_planner.py, document_writer.py, document_reviewer.py: what the *)
(* orchestrator gets back from the three task agents                       *)
(***************************************************************************)
\* str.startswith, str.find, str.rfind (0-based, -1 when absent), the slice
\* s[start:end] for start, end >= 0, str.split(sep) for a one-character
\* separator and str.replace(old, "")
startswith(s, prefix) == Len(s) >= Len(prefix) /\ SubSeq(s, 1, Len(prefix)) = prefix

find(s, c) ==
    IF \E i \in 1..Len(s) : s[i] = c
    THEN (CHOOSE i \in 1..Len(s) : s[i] = c /\ \A j \in 1..(i - 1) : s[j] # c) - 1
    ELSE -1

rfind(s, c) ==
    IF \E i \in 1..Len(s) : s[i] = c
    THEN (CHOOSE i \in 1..Len(s) : s[i] = c /\ \A j \in (i + 1)..Len(s) : s[j] # c) - 1
    ELSE -1

slice(s, start, end) == SubSeq(s, start + 1, end)

RECURSIVE split(_, _)
split(s, sep) ==
    LET k == find(s, sep)
    IN  IF k = -1 THEN <<s>>
        ELSE <<slice(s, 0, k)>> \o split(slice(s, k + 1, Len(s)), sep)

RECURSIVE remove(_, _)
remove(s, old) ==
    IF s = <<>> THEN <<>>
    ELSE IF startswith(s, old) THEN remove(slice(s, Len(old), Len(s)), old)
    ELSE <<Head(s)>> \o remove(Tail(s), old)

\* json.loads on the texts that can be written with the characters of
\* ResponseAlphabet: without quotes, digits and brackets the only JSON text
\* is the empty object, with white space around and inside the braces.
json_loads(s) ==
    LET t == strip(s)
    IN  IF /\ Len(t) >= 2
           /\ t[1] = "{"
           /\ Last(t) = "}"
           /\ \A i \in 2..(Len(t) - 1) : IsSpace(t[i])
        THEN [raised |-> FALSE, value |-> <<>>]
        ELSE [raised |-> TRUE, value |-> <<>>]

\* data.get(key, default)
dict_get(data, key, default) == IF DictHas(data, key) THEN DictGet(data, key) ELSE default

\* The titles the planner writes itself, as character sequences like the
\* titles it takes from the response.
DocumentTitle == <<"D", "o", "c", "u", "m", "e", "n", "t">>

UntitledDocumentTitle ==
    <<"U", "n", "t", "i", "t", "l", "e", "d", " ", "D", "o", "c", "u", "m", "e", "n", "t">>

IntroductionTitle == <<"I", "n", "t", "r", "o", "d", "u", "c", "t", "i", "o", "n">>

MainContentTitle == <<"M", "a", "i", "n", " ", "C", "o", "n", "t", "e", "n", "t">>

ConclusionTitle == <<"C", "o", "n", "c", "l", "u", "s", "i", "o", "n">>

PlanSection(title, description, estimated_words, priority) ==
    [title |-> title, description |-> description, estimated_words |-> estimated_words,
     priority |-> priority]

\* the loop of _extract_plan_from_text over the lines, from the i-th on:
\* the title and the sections found
RECURSIVE extract_lines(_, _, _, _)
extract_lines(lines, i, title, sections) ==
    IF i > Len(lines) THEN [title |-> title, sections |-> sections]
    ELSE LET line == strip(lines[i])
         IN  IF startswith(line, <<"T", "i", "t", "l", "e", ":">>) \/ startswith(line, <<"#", " ">>)
             THEN extract_lines(lines, i + 1,
                     strip(remove(remove(line, <<"T", "i", "t", "l", "e", ":">>), <<"#", " ">>)),
                     sections)
             ELSE IF startswith(line, <<"-", " ">>) \/ startswith(line, <<"*", " ">>)
                  THEN extract_lines(lines, i + 1, title,
                          Append(sections,
                                 PlanSection(strip(remove(remove(line, <<"-", " ">>), <<"*", " ">>)),
                                             "", 200, "medium")))
             ELSE extract_lines(lines, i + 1, title, sections)

\* DocumentPlanner._extract_plan_from_text
extract_plan_from_text(text) ==
    LET found == extract_lines(split(text, "\n"), 1, DocumentTitle, <<>>)
    IN  <<<<"document_type", "document">>,
          <<"title", found.title>>,
          <<"sections", found.sections>>,
          <<"estimated_time", Len(found.sections) * 300>>>>

\* DocumentPlanner._create_basic_plan_structure
create_basic_plan_structure ==
    <<<<"document_type", "document">>,
      <<"title", DocumentTitle>>,
      <<"sections",
        <<PlanSection(IntroductionTitle, "Document introduction", 150, "high"),
          PlanSection(MainContentTitle, "Main document content", 500, "high"),
          PlanSection(ConclusionTitle, "Document conclusion", 100, "medium")>>>>,
      <<"estimated_time", 900>>>>

\* DocumentPlanner._parse_plan_response: the plan data as a dict.  rfind
\* gives -1 when there is no closing brace, so that end is 0 and never -1.
parse_plan_response(response) ==
    LET whole == json_loads(response)
        start == find(response, "{")
        end == rfind(response, "}") + 1
        block == json_loads(slice(response, start, end))
    IN  IF startswith(strip(response), <<"{">>)
        THEN IF whole.raised THEN create_basic_plan_structure ELSE whole.value
        ELSE IF start # -1 /\ end # -1
             THEN IF block.raised THEN create_basic_plan_structure ELSE block.value
        ELSE extract_plan_from_text(response)

\* DocumentPlanner.create_plan, given the text route_request returned: the
\* fields of the DocumentPlan it constructs
plan_of_response(response) ==
    LET plan_data == parse_plan_response(response)
    IN  [document_type |-> dict_get(plan_data, "document_type", "document"),
         title |-> dict_get(plan_data, "title", UntitledDocumentTitle),
         sections |-> dict_get(plan_data, "sections", <<>>),
         estimated_time |-> dict_get(plan_data, "estimated_time", 300),
         current_step |-> 0,
         total_steps |-> Len(dict_get(plan_data, "sections", <<>>))]

\* What the planner's model answers: a JSON object whose "sections" is a
\* list (of n_sections entries), or one whose "sections" has no length
\* (null, a number).
PlannerResponses ==
    {[kind |-> "json", n_sections |-> 2],
     [kind |-> "unsized", n_sections |-> 0]}

DocumentPlan(n_sections, total_steps) ==
    [n_sections |-> n_sections, current_step |-> 0, total_steps |-> total_steps]

\* DocumentPlanner.create_plan: the plan, or the exception that leaves the
\* method (the fallback plan reads user_request[:100])
create_plan(user_request, plan_response) ==
    IF plan_response.kind # "unsized"
    THEN [raised |-> FALSE,
          plan |-> <<DocumentPlan(plan_response.n_sections, plan_response.n_sections)>>]
    ELSE IF user_request = NoMessage
         THEN [raised |-> TRUE, plan |-> <<>>]
    ELSE [raised |-> FALSE, plan |-> <<DocumentPlan(1, 1)>>]

\* What happens inside write_content: it completes, or something in it
\* raises after sections_before sections of the plan have been written.
WriterOutcomes ==
    {[raised |-> FALSE, sections_before |-> 0]}
    \cup [raised : {TRUE}, sections_before : {0, 1}]

Min(a, b) == IF a <= b THEN a ELSE b

\* DocumentWriter.write_content: the result it returns (it catches every
\* exception) and the plan as _write_from_plan leaves it
write_content(plan, document_service, outcome) ==
    LET remaining ==
            IF plan = <<>> \/ plan[1].current_step >= plan[1].n_sections THEN 0
            ELSE plan[1].n_sections - plan[1].current_step
        written == IF outcome.raised THEN Min(outcome.sections_before, remaining)
                   ELSE remaining
        plan_after ==
            IF plan = <<>> \/ written = 0 THEN plan
            ELSE <<[plan[1] EXCEPT !.current_step = @ + written]>>
    IN  [plan |-> plan_after,
         result |->
            IF outcome.raised
            THEN [success |-> FALSE, changes_made |-> 0, document_updated |-> FALSE]
            ELSE [success |-> TRUE,
                  changes_made |-> IF plan = <<>> THEN 1 ELSE written,
                  document_updated |-> document_service]]

\* The regular expressions of _extract_score, matched the way re.search
\* matches them: at the leftmost position where the pattern matches, every
\* repetition taking as much as it can (no shorter repetition can match,
\* because what follows a run of separators or of digits in the patterns
\* is never a separator or a digit itself).
IsDigit(c) == c \in {"0", "1", "2", "3", "4", "5", "6", "7", "8", "9"}

\* [:\s]
IsSeparator(c) == c = ":" \/ IsSpace(c)

DigitValue(c) ==
    CASE c = "0" -> 0 [] c = "1" -> 1 [] c = "2" -> 2 [] c = "3" -> 3 [] c = "4" -> 4
      [] c = "5" -> 5 [] c = "6" -> 6 [] c = "7" -> 7 [] c = "8" -> 8 [] c = "9" -> 9

\* int(digits)
RECURSIVE int(_)
int(digits) ==
    IF digits = <<>> THEN 0
    ELSE int(SubSeq(digits, 1, Len(digits) - 1)) * 10 + DigitValue(Last(digits))

\* [:\s]* from position i: the position after the run
RECURSIVE after_separators(_, _)
after_separators(s, i) ==
    IF i <= Len(s) /\ IsSeparator(s[i]) THEN after_separators(s, i + 1) ELSE i

\* \d+ from position i: the position after the run
RECURSIVE after_digits(_, _)
after_digits(s, i) ==
    IF i <= Len(s) /\ IsDigit(s[i]) THEN after_digits(s, i + 1) ELSE i

\* re.search(keyword + r'[:\s]*(\d+)', s): <<>> for no match, <<group 1>>
\* for a match
search_keyword_number(s, keyword) ==
    LET hits == {p \in 1..Len(s) :
                    /\ startswith(SubSeq(s, p, Len(s)), keyword)
                    /\ after_digits(s, after_separators(s, p + Len(keyword)))
                          > after_separators(s, p + Len(keyword))}
    IN  IF hits = {} THEN <<>>
        ELSE LET p == CHOOSE h \in hits : \A g \in hits : h <= g
                 d == after_separators(s, p + Len(keyword))
             IN  <<SubSeq(s, d, after_digits(s, d) - 1)>>

\* re.search(r'(\d+)/10', s)
search_out_of_ten(s) ==
    LET hits == {p \in 1..Len(s) :
                    /\ IsDigit(s[p])
                    /\ startswith(SubSeq(s, after_digits(s, p), Len(s)), <<"/", "1", "0">>)}
    IN  IF hits = {} THEN <<>>
        ELSE LET p == CHOOSE h \in hits : \A g \in hits : h <= g
             IN  <<SubSeq(s, p, after_digits(s, p) - 1)>>

Max(a, b) == IF a >= b THEN a ELSE b

\* the three patterns of _extract_score in their order: what each captures
\* in the lower-cased response
score_captures(response) ==
    LET text == lower(response)
    IN  <<search_keyword_number(text, <<"s", "c", "o", "r", "e">>),
          search_out_of_ten(text),
          search_keyword_number(text, <<"r", "a", "t", "i", "n", "g">>)>>

\* _extract_score that looks for "N/10" before "score: N"
extract_score_out_of_ten_first(response) ==
    LET captures == score_captures(response)
    IN  IF captures[2] # <<>> THEN Min(Max(int(captures[2][1]), 1), 10)
        ELSE IF captures[1] # <<>> THEN Min(Max(int(captures[1][1]), 1), 10)
        ELSE IF captures[3] # <<>> THEN Min(Max(int(captures[3][1]), 1), 10)
        ELSE 7

\* DocumentReviewer._extract_score
extract_score(response) ==
    LET captures == score_captures(response)
    IN  IF captures[1] # <<>> THEN Min(Max(int(captures[1][1]), 1), 10)
        ELSE IF captures[2] # <<>> THEN Min(Max(int(captures[2][1]), 1), 10)
        ELSE IF captures[3] # <<>> THEN Min(Max(int(captures[3][1]), 1), 10)
        ELSE 7

\* DocumentReviewer.review_content returns a result in both cases (it
\* catches every exception).
ReviewerOutcomes == {[success |-> TRUE, score |-> 8], [success |-> FALSE, score |-> 5]}

(***************************************************************************)
(* document_orchestrator.py: DocumentOrchestrator.  Every request          *)
(* constructs its own orchestrator (api/routes/ai.py); all of them use the *)
(* process-wide state manager and preview policy.  A request runs until    *)
(* its next call of a model or of a task agent, where it is suspended and  *)
(* other requests run; pc names the call it waits for.                     *)
(***************************************************************************)
MaxRequests == 2

Orchs == 1..MaxRequests

\* The two ways api/routes/ai.py constructs an orchestrator: without a
\* document service and observers, or with both.  An observer either
\* records the activity it is called with or raises after it was called.
ConstructionProfiles ==
    {[document_service |-> FALSE, activity_callbacks |-> <<>>],
     [document_service |-> TRUE, activity_callbacks |-> <<"raises", "records">>]}

\* DocumentOrchestrator.__init__.  received, call_order, calls, start_state,
\* entered, left, queued and raised_in record what happened: the activities
\* each observer was called with, the observers in the order they were
\* called, the calls of the task agents and their returns, the state at the
\* start of the request, the states its own transition_to calls moved the
\* state machine to and the states they moved it from, the messages the
\* request added to the outbound queue, and the step an exception came
\* from.
DocumentOrchestratorInit(profile) ==
    [pc |-> "constructed",
     document_service |-> profile.document_service,
     current_plan |-> <<>>,
     context |-> <<>>,
     operation_count |-> 0,
     process_activities |-> <<>>,
     activity_callbacks |-> profile.activity_callbacks,
     analysis |-> <<>>,
     plan_updated |-> FALSE,
     execution_result |->
         [content_generated |-> FALSE, content_reviewed |-> FALSE, changes_made |-> 0],
     should_update |-> FALSE,
     result |-> <<>>,
     received |-> [i \in 1..Len(profile.activity_callbacks) |-> <<>>],
     call_order |-> <<>>,
     calls |-> <<>>,
     start_state |-> <<>>,
     entered |-> <<>>,
     left |-> <<>>,
     queued |-> <<>>,
     raised_in |-> <<>>]

OrchestratorsInit ==
    [o \in Orchs |->
        DocumentOrchestratorInit([document_service |-> FALSE, activity_callbacks |-> <<>>])]

Activity(agent, action, status) == [agent |-> agent, action |-> action, status |-> status]

AgentMessage(agent_type, message_type) ==
    [agent_type |-> agent_type, message_type |-> message_type]

\* the loop over activity_callbacks that an exception of an observer ends
RECURSIVE notify_until_raise(_, _, _)
notify_until_raise(oc, activity, i) ==
    IF i > Len(oc.activity_callbacks) THEN oc
    ELSE LET called == [oc EXCEPT !.received[i] = Append(@, activity),
                                  !.call_order = Append(@, i)]
         IN  IF oc.activity_callbacks[i] = "raises" THEN called
             ELSE notify_until_raise(called, activity, i + 1)

\* the loop over activity_callbacks from the i-th on: each is awaited with
\* the activity, and the exception of one that raises is logged and the
\* loop goes on
RECURSIVE notify_from(_, _, _)
notify_from(oc, activity, i) ==
    IF i > Len(oc.activity_callbacks) THEN oc
    ELSE LET called == [oc EXCEPT !.received[i] = Append(@, activity),
                                  !.call_order = Append(@, i)]
         IN  notify_from(called, activity, i + 1)

notify_callbacks(oc, activity) == notify_from(oc, activity, 1)

\* DocumentOrchestrator._emit_activity
emit_activity(oc, agent, action, status) ==
    LET activity == Activity(agent, action, status)
    IN  notify_callbacks([oc EXCEPT !.process_activities = Append(@, activity)], activity)

\* DocumentOrchestrator._update_activity_status: the latest activity of the
\* agent and action gets the status, and the observers are called with it
update_activity_status(oc, agent, action, status) ==
    LET pa == oc.process_activities
        matches == {i \in 1..Len(pa) : pa[i].agent = agent /\ pa[i].action = action}
    IN  IF matches = {} THEN oc
        ELSE LET i == CHOOSE m \in matches : \A n \in matches : n <= m
                 activity == [pa[i] EXCEPT !.status = status]
             IN  notify_callbacks([oc EXCEPT !.process_activities[i] = activity], activity)

(***************************************************************************)
(* The steps of process_user_request.  A step works on w = [sm, pde, oc]:  *)
(* the state manager, the preview policy and the request's orchestrator;   *)
(* t is the time of the step.                                              *)
(***************************************************************************)
transition(w, new_state, agent_type, message, t) ==
    LET sm == transition_to(w.sm, new_state, agent_type, message, t)
    IN  [w EXCEPT !.sm = sm,
                  !.oc.entered = IF sm.current_state # w.sm.current_state
                                 THEN Append(@, new_state) ELSE @,
                  !.oc.left = IF sm.current_state # w.sm.current_state
                              THEN Append(@, w.sm.current_state) ELSE @]

emit(w, agent, action, status) == [w EXCEPT !.oc = emit_activity(@, agent, action, status)]

update(w, agent, action, status) ==
    [w EXCEPT !.oc = update_activity_status(@, agent, action, status)]

\* agent_state_manager.add_message(message) as called by the request
queue_message(w, message) ==
    [w EXCEPT !.sm = add_message(@, message), !.oc.queued = Append(@, message)]

invoke(w, agent, event) ==
    [w EXCEPT !.oc.calls =
        Append(@, [agent |-> agent, event |-> event, plan |-> w.oc.current_plan])]

(***************************************************************************)
(* The state manager under arbitrary calls of its public operations, as    *)
(* made by any number of requests, one call at a time (the calls are       *)
(* synchronous and do not suspend).                                        *)
(***************************************************************************)
\* (agent_type, message) pairs of the transition_to calls explored
Callers == {<<ORCHESTRATOR, "Starting analysis of user request">>, <<WRITER, None>>}

ProbeInit == [op |-> None]

SMInit ==
    /\ agent_state_manager = AgentStateManagerInit
    /\ preview_decision_engine = PreviewUpdateDecisionInit
    /\ llm_router = LLMRouterInit
    /\ agent_config_manager = AgentConfigManagerInit
    /\ orch = OrchestratorsInit
    /\ now = 0
    /\ probe = ProbeInit

SMTransitionTo(new_state, agent_type, message) ==
    /\ Len(agent_state_manager.state_history) < MaxHistory
    /\ agent_state_manager' =
          transition_to(agent_state_manager, new_state, agent_type, message, now)
    /\ UNCHANGED <<preview_decision_engine, llm_router, agent_config_manager, orch, now, probe>>

SMCanTransitionTo(new_state) ==
    /\ probe' = [op |-> "can_transition_to", new_state |-> new_state,
                 ret |-> can_transition_to(agent_state_manager, new_state)]
    /\ UNCHANGED <<agent_state_manager, preview_decision_engine, llm_router,
                   agent_config_manager, orch, now>>

Tick ==
    /\ now + TickSeconds <= MaxNow
    /\ now' = now + TickSeconds
    /\ UNCHANGED <<agent_state_manager, preview_decision_engine, llm_router,
                   agent_config_manager, orch, probe>>

SMNext ==
    \/ \E s \in AgentState, c \in Callers : SMTransitionTo(s, c[1], c[2])
    \/ \E s \in AgentState : SMCanTransitionTo(s)

SpecSM == SMInit /\ [][SMNext]_vars

(***************************************************************************)
(* The preview policy under arbitrary calls.                               *)
(***************************************************************************)
ElapsedSeconds == {0, 29, 30, 45}
ContentChangeCounts == {0, 50, 100, 101, 150}

PreviewInputs ==
    [op : {"args"}, current_state : AgentState, last_action : AgentAction,
     time_since_last_update : ElapsedSeconds, content_changes : ContentChangeCounts,
     user_requested : BOOLEAN, ret : {FALSE}]

PVInit ==
    /\ agent_state_manager = AgentStateManagerInit
    /\ preview_decision_engine = PreviewUpdateDecisionInit
    /\ llm_router = LLMRouterInit
    /\ agent_config_manager = AgentConfigManagerInit
    /\ orch = OrchestratorsInit
    /\ now = 0
    /\ probe \in PreviewInputs

PVShouldUpdate ==
    /\ probe.op = "args"
    /\ probe' = [probe EXCEPT
                   !.op = "should_update_preview",
                   !.ret = should_update_preview(preview_decision_engine,
                              probe.current_state, probe.last_action,
                              probe.time_since_last_update, probe.content_changes,
                              probe.user_requested)]
    /\ UNCHANGED <<agent_state_manager, preview_decision_engine, llm_router,
                   agent_config_manager, orch, now>>

PVRecordUpdate ==
    /\ preview_decision_engine' = record_update(preview_decision_engine, now)
    /\ UNCHANGED <<agent_state_manager, llm_router, agent_config_manager, orch, now, probe>>

PVNext ==
    \/ PVShouldUpdate
    \/ PVRecordUpdate
    \/ Tick

SpecPreview == PVInit /\ [][PVNext]_vars

(***************************************************************************)
(* Configuration validation under arbitrary configurations.                *)
(***************************************************************************)
ProviderNames == {"openai", "google", "mock", "unknown-provider"}
RetryCounts == {0, 1, 3}
TimeoutSeconds == {4, 5, 30}

CandidateConfigs ==
    {[DefaultAgentConfig EXCEPT
        !.orchestrator_llm = o, !.planner_llm = p, !.writer_llm = w,
        !.reviewer_llm = r, !.fallback_llm = f,
        !.max_retries = n, !.timeout_seconds = t] :
     o \in ProviderNames, p \in ProviderNames, w \in ProviderNames,
     r \in ProviderNames, f \in ProviderNames,
     n \in RetryCounts, t \in TimeoutSeconds}

CFInit ==
    /\ agent_state_manager = AgentStateManagerInit
    /\ preview_decision_engine = PreviewUpdateDecisionInit
    /\ llm_router = LLMRouterInit
    /\ agent_config_manager = AgentConfigManagerInit
    /\ orch = OrchestratorsInit
    /\ now = 0
    /\ probe \in [op : {"args"}, config : CandidateConfigs, ret : {<<>>},
                   exchanged : {<<>>}, back : {<<>>}]

CFValidate ==
    /\ probe.op = "args"
    /\ probe' = [probe EXCEPT !.op = "validate_config",
                               !.ret = validate_config(probe.config)]
    /\ UNCHANGED <<agent_state_manager, preview_decision_engine, llm_router,
                   agent_config_manager, orch, now>>

\* AgentConfig.from_dict(config.to_dict())
CFRoundTrip ==
    /\ probe.op = "args"
    /\ probe' = [probe EXCEPT !.op = "round_trip",
                               !.exchanged = to_dict(probe.config),
                               !.back = <<from_dict(to_dict(probe.config))>>]
    /\ UNCHANGED <<agent_state_manager, preview_decision_engine, llm_router,
                   agent_config_manager, orch, now>>

CFNext ==
    \/ CFValidate
    \/ CFRoundTrip

SpecConfig == CFInit /\ [][CFNext]_vars

(***************************************************************************)
(* The configuration manager under arbitrary calls of set_config and       *)
(* update_config, as the route update_agent_config and any other caller    *)
(* make them.                                                              *)
(***************************************************************************)
DocumentIds == {<<>>, <<0>>, <<1>>, <<2>>}

\* Configurations given to set_config
GivenConfigs ==
    {DefaultAgentConfig,
     [DefaultAgentConfig EXCEPT !.writer_llm = "unknown-provider"],
     [DefaultAgentConfig EXCEPT !.max_retries = 0]}

\* The config_updates bodies given to update_config
GivenUpdates ==
    {<<>>,
     <<<<"max_retries", 0>>>>,
     <<<<"timeout_seconds", 4>>>>,
     <<<<"writer_llm", "unknown-provider">>>>,
     <<<<"writer_llm", "openai">>, <<"timeout_seconds", 60>>>>,
     <<<<"unknown_field", 1>>>>}

CMInit ==
    /\ agent_state_manager = AgentStateManagerInit
    /\ preview_decision_engine = PreviewUpdateDecisionInit
    /\ llm_router = LLMRouterInit
    /\ agent_config_manager = AgentConfigManagerInit
    /\ orch = OrchestratorsInit
    /\ now = 0
    /\ probe = ProbeInit

CMSetConfig(config, document_id) ==
    /\ agent_config_manager' = set_config(agent_config_manager, config, document_id)
    /\ UNCHANGED <<agent_state_manager, preview_decision_engine, llm_router, orch, now, probe>>

\* update_agent_config: update_config, and HTTP 500 when it raises
CMUpdateConfig(updates, document_id) ==
    /\ agent_config_manager' = update_config(agent_config_manager, updates, document_id).manager
    /\ UNCHANGED <<agent_state_manager, preview_decision_engine, llm_router, orch, now, probe>>

CMNext ==
    \/ \E c \in GivenConfigs, d \in DocumentIds : CMSetConfig(c, d)
    \/ \E u \in GivenUpdates, d \in DocumentIds : CMUpdateConfig(u, d)

SpecCM == CMInit /\ [][CMNext]_vars

(***************************************************************************)
(* The router under arbitrary configurations, adapter availability and     *)
(* adapter outcomes.                                                       *)
(***************************************************************************)
RouterConfigs ==
    {[DefaultAgentConfig EXCEPT
        !.orchestrator_llm = o, !.writer_llm = w, !.fallback_llm = f] :
     o \in ProviderNames, w \in ProviderNames, f \in ProviderNames}

OptionalAdapters == {"openai", "google"}

TaskCategories == AgentTypes \cup {"unknown-category"}

MessageLists == {<<>>, <<[role |-> "user", content |-> "write a report"]>>}

RTInit ==
    /\ agent_state_manager = AgentStateManagerInit
    /\ preview_decision_engine = PreviewUpdateDecisionInit
    /\ llm_router \in {[config |-> c, adapters |-> {"mock"} \cup a] :
                          c \in RouterConfigs, a \in SUBSET OptionalAdapters}
    /\ agent_config_manager = AgentConfigManagerInit
    /\ orch = OrchestratorsInit
    /\ now = 0
    /\ probe = ProbeInit

\* one call on a router (the router keeps nothing from call to call)
RTRouteRequest(agent_type, messages, primary_outcome, fallback_outcome) ==
    /\ probe = ProbeInit
    /\ probe' = [op |-> "route_request",
                 agent_type |-> agent_type,
                 messages |-> messages,
                 primary_outcome |-> primary_outcome,
                 fallback_outcome |-> fallback_outcome,
                 result |-> route_request(llm_router, agent_type, messages,
                                          primary_outcome, fallback_outcome)]
    /\ UNCHANGED <<agent_state_manager, preview_decision_engine, llm_router,
                   agent_config_manager, orch, now>>

RTStreamRouteRequest(agent_type, messages, primary_outcome, fallback_outcome) ==
    /\ probe = ProbeInit
    /\ probe' = [op |-> "stream_route_request",
                 agent_type |-> agent_type,
                 messages |-> messages,
                 primary_outcome |-> primary_outcome,
                 fallback_outcome |-> fallback_outcome,
                 result |-> stream_route_request(llm_router, agent_type, messages,
                                                 primary_outcome, fallback_outcome)]
    /\ UNCHANGED <<agent_state_manager, preview_decision_engine, llm_router,
                   agent_config_manager, orch, now>>

RTNext ==
    \/ \E a \in TaskCategories, m \in MessageLists,
          po \in AdapterOutcomes, fo \in AdapterOutcomes : RTRouteRequest(a, m, po, fo)
    \/ \E a \in TaskCategories, m \in MessageLists,
          po \in StreamOutcomes, fo \in StreamOutcomes : RTStreamRouteRequest(a, m, po, fo)

SpecRouter == RTInit /\ [][RTNext]_vars

(***************************************************************************)
(* The analysis step under arbitrary messages and model responses.         *)
(***************************************************************************)
MaxPhrases == 3

\* The explored messages are made of these phrases.
Phrases ==
    {<<"H", "i">>,
     <<"T", "h", "a", "n", "k", "s">>,
     <<"o", "k">>,
     <<"w", "h", "a", "t", " ", "i", "s">>,
     <<"d", "r", "a", "f", "t", " ", "t", "h", "i", "s", " ", "e", "m", "a", "i", "l">>,
     <<"w", "r", "i", "t", "e", " ", "a", " ", "s", "h", "o", "r", "t", " ", "p", "r", "o", "p", "o", "s", "a", "l", " ", "t", "e", "m", "p", "l", "a", "t", "e">>,
     <<"e", "x", "p", "a", "n", "d", " ", "o", "n", " ", "i", "t">>}

RECURSIVE Sentences(_)
Sentences(n) ==
    IF n <= 1 THEN Phrases
    ELSE LET shorter == Sentences(n - 1)
         IN  shorter \cup {s \o <<" ">> \o w : s \in shorter, w \in Phrases}

FallbackMessages ==
    Sentences(MaxPhrases) \cup {<<" ">> \o w \o <<" ">> : w \in Phrases} \cup {NoMessage}

FBInit ==
    /\ agent_state_manager = AgentStateManagerInit
    /\ preview_decision_engine = PreviewUpdateDecisionInit
    /\ llm_router = LLMRouterInit
    /\ agent_config_manager = AgentConfigManagerInit
    /\ orch = OrchestratorsInit
    /\ now = 0
    /\ probe \in [op : {"args"}, user_message : FallbackMessages,
                   response : AnalysisResponses, ret : {None}]

FBAnalyze ==
    /\ probe.op = "args"
    /\ probe' = [probe EXCEPT
                   !.op = "analyze_request",
                   !.ret = analyze_request(probe.user_message, probe.response)]
    /\ UNCHANGED <<agent_state_manager, preview_decision_engine, llm_router,
                   agent_config_manager, orch, now>>

FBNext == FBAnalyze

SpecFallback == FBInit /\ [][FBNext]_vars

(***************************************************************************)
(* Plan creation under arbitrary texts returned by the planner's model.    *)
(***************************************************************************)
MaxResponseLen == 4

ResponseAlphabet == {"{", "}", "a", "-", "*", "#", " ", "\n"}

\* The texts of at most n characters
Texts(n) == UNION {[1..k -> ResponseAlphabet] : k \in 0..n}

PLInit ==
    /\ agent_state_manager = AgentStateManagerInit
    /\ preview_decision_engine = PreviewUpdateDecisionInit
    /\ llm_router = LLMRouterInit
    /\ agent_config_manager = AgentConfigManagerInit
    /\ orch = OrchestratorsInit
    /\ now = 0
    /\ probe \in [op : {"args"}, response : Texts(MaxResponseLen), plan : {<<>>}]

PLCreatePlan ==
    /\ probe.op = "args"
    /\ probe' = [probe EXCEPT !.op = "create_plan",
                               !.plan = <<plan_of_response(probe.response)>>]
    /\ UNCHANGED <<agent_state_manager, preview_decision_engine, llm_router,
                   agent_config_manager, orch, now>>

PLNext == PLCreatePlan

SpecPlanner == PLInit /\ [][PLNext]_vars

(***************************************************************************)
(* Score extraction under arbitrary review texts.                          *)
(***************************************************************************)
MaxPieces == 4

\* The explored review texts are made of these pieces.
ReviewPieces ==
    {<<"S", "c", "o", "r", "e">>,
     <<"r", "a", "t", "i", "n", "g">>,
     <<":", " ">>,
     <<" ">>,
     <<"9">>,
     <<"1", "3">>,
     <<"0">>,
     <<"/", "1", "0">>,
     <<"i", "s">>}

RECURSIVE Reviews(_)
Reviews(n) ==
    IF n = 0 THEN {<<>>}
    ELSE LET shorter == Reviews(n - 1)
         IN  shorter \cup {s \o w : s \in shorter, w \in ReviewPieces}

RVInit ==
    /\ agent_state_manager = AgentStateManagerInit
    /\ preview_decision_engine = PreviewUpdateDecisionInit
    /\ llm_router = LLMRouterInit
    /\ agent_config_manager = AgentConfigManagerInit
    /\ orch = OrchestratorsInit
    /\ now = 0
    /\ probe \in [op : {"args"}, response : Reviews(MaxPieces), ret : {0}]

\* _parse_review_response: "score": self._extract_score(response)
RVExtractScore ==
    /\ probe.op = "args"
    /\ probe' = [probe EXCEPT !.op = "extract_score",
                               !.ret = extract_score(probe.response)]
    /\ UNCHANGED <<agent_state_manager, preview_decision_engine, llm_router,
                   agent_config_manager, orch, now>>

RVNext == RVExtractScore

SpecReviewer == RVInit /\ [][RVNext]_vars

\* _determine_preview_update with the time since the start of the process
\* as the elapsed time while no update has been recorded
determine_preview_update_since_start(w, t) ==
    LET current_state == w.sm.current_state
        last_action == IF w.oc.execution_result.content_generated
                       THEN WRITE_CONTENT ELSE ANALYZE_REQUEST
        time_since_last_update ==
            IF w.pde.last_update_time # Never THEN t - w.pde.last_update_time[1] ELSE t
        should_update ==
            should_update_preview(w.pde, current_state, last_action, time_since_last_update,
                                  w.oc.execution_result.changes_made, FALSE)
    IN  IF should_update
        THEN LET w1 == transition(w, UPDATING_PREVIEW, ORCHESTRATOR,
                                  "Updating document preview", t)
                 w2 == [w1 EXCEPT !.pde = record_update(@, t)]
                 w3 == queue_message(w2, AgentMessage(ORCHESTRATOR, "preview_updated"))
             IN  [w3 EXCEPT !.oc.should_update = TRUE]
        ELSE [w EXCEPT !.oc.should_update = FALSE]

\* _determine_preview_update
determine_preview_update(w, t) ==
    LET current_state == w.sm.current_state
        last_action == IF w.oc.execution_result.content_generated
                       THEN WRITE_CONTENT ELSE ANALYZE_REQUEST
        time_since_last_update ==
            IF w.pde.last_update_time # Never THEN t - w.pde.last_update_time[1] ELSE 0
        should_update ==
            should_update_preview(w.pde, current_state, last_action, time_since_last_update,
                                  w.oc.execution_result.changes_made, FALSE)
    IN  IF should_update
        THEN LET w1 == transition(w, UPDATING_PREVIEW, ORCHESTRATOR,
                                  "Updating document preview", t)
                 w2 == [w1 EXCEPT !.pde = record_update(@, t)]
                 w3 == queue_message(w2, AgentMessage(ORCHESTRATOR, "preview_updated"))
             IN  [w3 EXCEPT !.oc.should_update = TRUE]
        ELSE [w EXCEPT !.oc.should_update = FALSE]

\* process_user_request, steps 4 and 5 up to the call of the model that
\* writes the final response
respond_stage(w, t) ==
    LET w1 == determine_preview_update(w, t)
        w2 == IF w1.oc.should_update
              THEN emit(w1, "orchestrator", "Coordinating preview update", "completed")
              ELSE w1
        w3 == emit(w2, "orchestrator", "Generating final response", "in_progress")
    IN  [w3 EXCEPT !.oc.pc = "respond"]

\* _execute_plan, the review phase up to the call of the reviewer
review_phase(w, t) ==
    IF w.oc.analysis[1].requires_review
    THEN LET w1 == transition(w, REVIEWING, REVIEWER, "Reviewing content", t)
             w2 == emit(w1, "reviewer", "Reviewing content quality", "in_progress")
         IN  [invoke(w2, REVIEWER, "call") EXCEPT !.oc.pc = "review"]
    ELSE respond_stage(w, t)

\* _execute_plan, the review phase from the return of the reviewer on
after_review(w, review_result, t) ==
    LET w1 == invoke(w, REVIEWER, "return")
        w2 == update(w1, "reviewer", "Reviewing content quality",
                     IF review_result.success THEN "completed" ELSE "error")
        w3 == emit([w2 EXCEPT !.oc.execution_result.content_reviewed = TRUE],
                   "orchestrator", "Review completed, finalizing response", "completed")
        w4 == queue_message(w3, AgentMessage(REVIEWER, "content_reviewed"))
    IN  respond_stage(w4, t)

\* the writing phase with the review left out when the writer failed
after_writing_review_on_success(w, writing, t) ==
    LET w1 == invoke([w EXCEPT !.oc.current_plan = writing.plan], WRITER, "return")
        w2 == update(w1, "writer", "Generating document content",
                     IF writing.result.success THEN "completed" ELSE "error")
        w3 == [w2 EXCEPT !.oc.execution_result.content_generated = TRUE,
                         !.oc.execution_result.changes_made = writing.result.changes_made]
        w4 == queue_message(w3, AgentMessage(WRITER, "content_generated"))
    IN  IF writing.result.success THEN review_phase(w4, t) ELSE respond_stage(w4, t)

\* _execute_plan, what it tells the observers about the writer's result
report_writing(w, writing_result) ==
    IF writing_result.success
    THEN LET done == update(w, "writer", "Generating document content", "completed")
         IN  IF writing_result.document_updated
             THEN emit(done, "orchestrator", "Saving content to document", "completed")
             ELSE done
    ELSE update(w, "writer", "Generating document content", "error")

\* _execute_plan, the writing phase from the return of the writer on
after_writing(w, writing, t) ==
    LET w1 == invoke([w EXCEPT !.oc.current_plan = writing.plan], WRITER, "return")
        w2 == report_writing(w1, writing.result)
        w3 == [w2 EXCEPT !.oc.execution_result.content_generated = TRUE,
                         !.oc.execution_result.changes_made = writing.result.changes_made]
        w4 == IF w3.oc.analysis[1].requires_review
              THEN emit(w3, "orchestrator", "Writer completed, sending to reviewer",
                        "completed")
              ELSE w3
        w5 == queue_message(w4, AgentMessage(WRITER, "content_generated"))
    IN  review_phase(w5, t)

\* _execute_plan, the writing phase up to the call of the writer
writing_phase(w, t) ==
    IF w.oc.analysis[1].requires_writing
    THEN LET w1 == transition(w, WRITING, WRITER, "Generating content", t)
             w2 == emit(w1, "writer", "Generating document content", "in_progress")
         IN  [invoke(w2, WRITER, "call") EXCEPT !.oc.pc = "write"]
    ELSE review_phase(w, t)

\* _execute_plan up to its first suspension
execute_plan(w, t) ==
    LET analysis == w.oc.analysis[1]
        is_simple_conversation ==
            /\ ~analysis.requires_planning
            /\ ~analysis.requires_writing
            /\ ~analysis.requires_review
        w1 == [w EXCEPT !.oc.execution_result =
                  [content_generated |-> FALSE, content_reviewed |-> FALSE,
                   changes_made |-> 0]]
    IN  IF is_simple_conversation
        THEN [emit(w1, "orchestrator", "Preparing conversational response", "in_progress")
                 EXCEPT !.oc.pc = "conv"]
        ELSE writing_phase(w1, t)

\* _handle_planning from the return of the planner on, and the hand-off of
\* process_user_request
after_planning(w, plan, t) ==
    LET w1 == invoke([w EXCEPT !.oc.current_plan = plan], PLANNER, "return")
        w2 == update(w1, "planner", "Creating document plan", "completed")
        w3 == [queue_message(w2, AgentMessage(PLANNER, "plan_created"))
                  EXCEPT !.oc.plan_updated = TRUE]
        w4 == emit(w3, "orchestrator", "Plan created, handing off to writer", "completed")
    IN  execute_plan(w4, t)

\* process_user_request from the return of _analyze_request on, and
\* _handle_planning up to the call of the planner
after_analysis(w, t) ==
    LET w1 == update(w, "orchestrator", "Analyzing user request", "completed")
    IN  IF w1.oc.analysis[1].requires_planning
        THEN LET w2 == transition(w1, PLANNING, PLANNER, "Creating document plan", t)
                 w3 == emit(w2, "planner", "Creating document plan", "in_progress")
             IN  [invoke(w3, PLANNER, "call") EXCEPT !.oc.pc = "plan"]
        ELSE execute_plan([w1 EXCEPT !.oc.plan_updated = FALSE], t)

\* DocumentPlanner.update_plan: the current plan when anything fails
update_plan(current_plan, plan_response) ==
    IF plan_response.kind # "unsized"
    THEN <<[current_plan[1] EXCEPT !.n_sections = plan_response.n_sections,
                                   !.total_steps = plan_response.n_sections]>>
    ELSE current_plan

\* AgentStateManager.get_messages(): the queue is returned and cleared
get_messages(w) == [w EXCEPT !.sm.message_queue = <<>>]

\* the exception handler without the transition to Error
handle_exception_keeps_state(w, error, t) ==
    LET w1 == emit(w, "orchestrator", "Processing failed", "error")
    IN  [get_messages(w1) EXCEPT
            !.oc.result = <<[success |-> FALSE, error |-> error,
                             messages |-> w1.sm.message_queue]>>,
            !.oc.pc = "done"]

\* process_user_request, the except branch
handle_exception(w, error, t) ==
    LET w1 == transition(w, ERROR, ORCHESTRATOR, "Error: " \o error, t)
        w2 == emit(w1, "orchestrator", "Processing failed", "error")
    IN  [get_messages(w2) EXCEPT
            !.oc.result = <<[success |-> FALSE, error |-> error,
                             messages |-> w2.sm.message_queue]>>,
            !.oc.pc = "done"]

\* the end of process_user_request without the transition to Idle
finish_without_idle(w, t) ==
    LET w1 == update(w, "orchestrator", "Generating final response", "completed")
    IN  [get_messages(w1) EXCEPT
            !.oc.result = <<[success |-> TRUE, response |-> "final response",
                             plan_updated |-> w1.oc.plan_updated,
                             preview_ready |-> w1.oc.should_update,
                             messages |-> w1.sm.message_queue]>>,
            !.oc.pc = "done"]

\* process_user_request from the return of _generate_final_response on
finish(w, t) ==
    LET w1 == update(w, "orchestrator", "Generating final response", "completed")
        w2 == transition(w1, IDLE, ORCHESTRATOR, "Request processing complete", t)
    IN  [get_messages(w2) EXCEPT
            !.oc.result = <<[success |-> TRUE, response |-> "final response",
                             plan_updated |-> w2.oc.plan_updated,
                             preview_ready |-> w2.oc.should_update,
                             messages |-> w2.sm.message_queue]>>,
            !.oc.pc = "done"]

(***************************************************************************)
(* The requests: process_user_request run by overlapping requests.         *)
(***************************************************************************)
Hi == <<"h", "i">>

ProposalRequest ==
    <<"w", "r", "i", "t", "e", " ", "a", " ", "s", "h", "o", "r", "t", " ",
      "p", "r", "o", "p", "o", "s", "a", "l", " ", "t", "e", "m", "p", "l", "a", "t", "e">>

\* user_message of a request (the parameter is not checked: None gets in)
RequestMessages == {Hi, ProposalRequest, NoMessage}

\* The answers of the analysis model explored for a message: text that
\* cannot be parsed, for every message; for the messages other than "hi"
\* also a JSON object with the three flags all set or all clear.
ExploredAnalyses(user_message) ==
    {r \in AnalysisResponses :
        \/ ~r.parsed
        \/ /\ user_message # Hi
           /\ r.json
           /\ r.requires_planning = r.requires_writing
           /\ r.requires_writing = r.requires_review}

World(o) == [sm |-> agent_state_manager, pde |-> preview_decision_engine, oc |-> orch[o]]

Install(o, w) ==
    /\ agent_state_manager' = w.sm
    /\ preview_decision_engine' = w.pde
    /\ orch' = [orch EXCEPT ![o] = w.oc]

Init ==
    /\ agent_state_manager = AgentStateManagerInit
    /\ preview_decision_engine = PreviewUpdateDecisionInit
    /\ llm_router = LLMRouterInit
    /\ agent_config_manager = AgentConfigManagerInit
    /\ orch \in {[o \in Orchs |-> DocumentOrchestratorInit(p)] : p \in ConstructionProfiles}
    /\ now = 0
    /\ probe = ProbeInit

\* process_user_request up to the call of the model in _analyze_request;
\* the requests are numbered in the order they start
Start(o, user_message) ==
    /\ orch[o].pc = "constructed"
    /\ \A p \in Orchs : p < o => orch[p].pc # "constructed"
    /\ LET w == World(o)
           w1 == [w EXCEPT !.oc.operation_count = @ + 1,
                           !.oc.context = <<[user_message |-> user_message]>>,
                           !.oc.start_state = <<w.sm.current_state>>]
           w2 == transition(w1, ANALYZING, ORCHESTRATOR,
                            "Starting analysis of user request", now)
           w3 == emit(w2, "orchestrator", "Analyzing user request", "in_progress")
       IN  Install(o, [w3 EXCEPT !.oc.pc = "analyze"])
    /\ UNCHANGED <<llm_router, agent_config_manager, now, probe>>

\* the model has answered the analysis prompt
AnalyzeDone(o, response) ==
    /\ orch[o].pc = "analyze"
    /\ LET w == World(o)
           r == analyze_request(w.oc.context[1].user_message, response)
       IN  Install(o,
              IF r.raised
              THEN handle_exception([w EXCEPT !.oc.raised_in = <<"analyze">>],
                                    "'NoneType' object has no attribute 'lower'", now)
              ELSE after_analysis([w EXCEPT !.oc.analysis = <<r.analysis>>], now))
    /\ UNCHANGED <<llm_router, agent_config_manager, now, probe>>

\* the planner has returned or raised
PlanDone(o, plan_response) ==
    /\ orch[o].pc = "plan"
    /\ LET w == World(o)
           p == IF w.oc.current_plan # <<>>
                THEN [raised |-> FALSE, plan |-> update_plan(w.oc.current_plan, plan_response)]
                ELSE create_plan(w.oc.context[1].user_message, plan_response)
       IN  Install(o,
              IF p.raised
              THEN handle_exception([w EXCEPT !.oc.raised_in = <<"plan">>],
                                    "'NoneType' object is not subscriptable", now)
              ELSE after_planning(w, p.plan, now))
    /\ UNCHANGED <<llm_router, agent_config_manager, now, probe>>

\* asyncio.sleep(0.1) of the conversational branch is over
ConvDone(o) ==
    /\ orch[o].pc = "conv"
    /\ LET w == update(World(o), "orchestrator", "Preparing conversational response",
                       "completed")
       IN  Install(o, writing_phase(w, now))
    /\ UNCHANGED <<llm_router, agent_config_manager, now, probe>>

\* the writer has returned
WriteDone(o, outcome) ==
    /\ orch[o].pc = "write"
    /\ LET w == World(o)
       IN  Install(o, after_writing(w, write_content(w.oc.current_plan,
                                                     w.oc.document_service, outcome), now))
    /\ UNCHANGED <<llm_router, agent_config_manager, now, probe>>

\* the reviewer has returned
ReviewDone(o, review_result) ==
    /\ orch[o].pc = "review"
    /\ Install(o, after_review(World(o), review_result, now))
    /\ UNCHANGED <<llm_router, agent_config_manager, now, probe>>

\* the model has written the final response
RespondDone(o) ==
    /\ orch[o].pc = "respond"
    /\ Install(o, finish(World(o), now))
    /\ UNCHANGED <<llm_router, agent_config_manager, now, probe>>

\* AnalyzeDone with one of the answers explored for the message
ExploredAnalyzeDone(o, response) ==
    /\ orch[o].pc = "analyze"
    /\ response \in ExploredAnalyses(orch[o].context[1].user_message)
    /\ AnalyzeDone(o, response)

Next ==
    \/ \E o \in Orchs, m \in RequestMessages : Start(o, m)
    \/ \E o \in Orchs, r \in AnalysisResponses : ExploredAnalyzeDone(o, r)
    \/ \E o \in Orchs, r \in PlannerResponses : PlanDone(o, r)
    \/ \E o \in Orchs : ConvDone(o)
    \/ \E o \in Orchs, c \in WriterOutcomes : WriteDone(o, c)
    \/ \E o \in Orchs, r \in ReviewerOutcomes : ReviewDone(o, r)
    \/ \E o \in Orchs : RespondDone(o)

Spec == Init /\ [][Next]_vars

(***************************************************************************)
(* The requests one after the other: a request starts when no other is in  *)
(* progress.  They come to a process that is fresh, or to one in which     *)
(* earlier requests have left a preview update behind.                     *)
(***************************************************************************)
\* The state manager after two overlapping conversational requests, the
\* first of which found the state machine idle when it decided about the
\* preview: analyzing, idle, updating_preview, idle.
EarlierStateManager ==
    LET sm1 == transition_to(AgentStateManagerInit, ANALYZING, ORCHESTRATOR,
                             "Starting analysis of user request", 0)
        sm2 == transition_to(sm1, IDLE, ORCHESTRATOR, "Request processing complete", 0)
        sm3 == transition_to(sm2, UPDATING_PREVIEW, ORCHESTRATOR,
                             "Updating document preview", 0)
    IN  transition_to(sm3, IDLE, ORCHESTRATOR, "Request processing complete", 0)

SQInit ==
    /\ \E process \in
             {<<AgentStateManagerInit, PreviewUpdateDecisionInit, 0>>,
              <<EarlierStateManager, record_update(PreviewUpdateDecisionInit, 0),
                TickSeconds>>} :
          /\ agent_state_manager = process[1]
          /\ preview_decision_engine = process[2]
          /\ now = process[3]
    /\ llm_router = LLMRouterInit
    /\ agent_config_manager = AgentConfigManagerInit
    /\ orch \in {[o \in Orchs |-> DocumentOrchestratorInit(p)] : p \in ConstructionProfiles}
    /\ probe = ProbeInit

SQStart(o, user_message) ==
    /\ \A p \in Orchs : orch[p].pc \in {"constructed", "done"}
    /\ Start(o, user_message)

SQNext ==
    \/ \E o \in Orchs, m \in RequestMessages : SQStart(o, m)
    \/ \E o \in Orchs, r \in AnalysisResponses : AnalyzeDone(o, r)
    \/ \E o \in Orchs, r \in PlannerResponses : PlanDone(o, r)
    \/ \E o \in Orchs : ConvDone(o)
    \/ \E o \in Orchs, c \in WriterOutcomes : WriteDone(o, c)
    \/ \E o \in Orchs, r \in ReviewerOutcomes : ReviewDone(o, r)
    \/ \E o \in Orchs : RespondDone(o)

SpecSeq == SQInit /\ [][SQNext]_vars

(***************************************************************************)
(* The requests one after the other in a fresh process, while time passes. *)
(***************************************************************************)
FRNext ==
    \/ SQNext
    \/ Tick

SpecFresh == Init /\ [][FRNext]_vars

(***************************************************************************)
(* document_writer.py: DocumentWriter on the plan of one orchestrator,     *)
(* step by step.  The texts are sequences of one-character strings; wr is  *)
(* the writer, the plan its orchestrator holds and the pass in progress.   *)
(* opened, events, generated, returned, results and saves record what      *)
(* happened: the fragments of the stream that is open, the fragments taken *)
(* from the provider route and the broadcasts made in the pass, the        *)
(* sections whose stream was opened, the sections whose content a          *)
(* successful result returned, the results of write_content, and for each  *)
(* result what the persistence collaborator did.                           *)
(***************************************************************************)
MaxPlannings == 2    \* plan creations and updates explored on the orchestrator
MaxPasses == 2       \* write_content calls explored on the orchestrator

HeadingMark == <<"\n", "#", "#", " ">>
BlankLine == <<"\n", "\n">>
SectionDefaultTitle == <<"S", "e", "c", "t", "i", "o", "n">>
DocumentContentName ==
    <<"D", "o", "c", "u", "m", "e", "n", "t", " ", "C", "o", "n", "t", "e", "n", "t">>

\* a section of a plan as the planner's model wrote it: a dict with a
\* title, or one without
TitledSection(title) == <<<<"title", title>>>>
UntitledSection == <<<<"description", <<"x">>>>>>

\* The section lists of the explored plans
SectionLists ==
    {<<>>,
     <<TitledSection(<<"A">>)>>,
     <<TitledSection(<<"A">>), TitledSection(<<"B">>)>>,
     <<TitledSection(<<"A">>), UntitledSection>>,
     <<TitledSection(<<"A">>), TitledSection(<<"B">>), TitledSection(<<"C">>)>>}

\* What stream_route_request does for the writer: the fragments it yields
\* and whether it then ends by raising (a fallback stream that fails)
WriterStreams ==
    {[raised |-> FALSE, fragments |-> <<<<"a", " ">>, <<"b", " ">>>>],
     [raised |-> FALSE, fragments |-> <<>>],
     [raised |-> TRUE, fragments |-> <<<<"a", " ">>>>]}

\* What document_service.update_document does: it returns the updated
\* document, returns None (no such document), or raises
SaveOutcomes == {"updated", "none", "raises"}

WriterInit(document_service, websocket_manager) ==
    [op |-> "writer",
     pc |-> "idle",
     document_service |-> document_service,
     websocket_manager |-> websocket_manager,
     document_id |-> 1,
     plan |-> <<>>,
     plannings |-> 0,
     passes |-> 0,
     i |-> 0,
     section_name |-> <<>>,
     opened |-> <<>>,
     pending |-> <<>>,
     stream_raises |-> FALSE,
     chunk |-> <<>>,
     section_content |-> <<>>,
     total_content |-> <<>>,
     sections_completed |-> 0,
     pass_sections |-> <<>>,
     events |-> <<>>,
     generated |-> <<>>,
     returned |-> <<>>,
     results |-> <<>>,
     saves |-> <<>>]

\* DocumentPlanner.create_plan / update_plan, as _handle_planning calls
\* them for the plan the orchestrator holds: update_plan keeps current_step
create_or_update_plan(wr, sections) ==
    [wr EXCEPT
        !.plan = IF wr.plan = <<>>
                 THEN <<[sections |-> sections, current_step |-> 0,
                         total_steps |-> Len(sections)]>>
                 ELSE <<[sections |-> sections,
                         current_step |-> wr.plan[1].current_step,
                         total_steps |-> Len(sections)]>>,
        !.plannings = @ + 1]

StreamingUpdate(kind, chunk, full_content, section_name, is_header) ==
    [kind |-> kind, chunk |-> chunk, full_content |-> full_content,
     section_name |-> section_name, is_header |-> is_header]

\* _send_streaming_update as the writer calls it (if self.websocket_manager
\* and context.document_id): one broadcast_to_document call
send_streaming_update(wr, chunk, full_content, section_name, is_header) ==
    IF wr.websocket_manager /\ wr.document_id # 0
    THEN [wr EXCEPT !.events = Append(@, StreamingUpdate("broadcast", chunk, full_content,
                                                         section_name, is_header))]
    ELSE wr

\* write_content, the except branch: the result of a failed pass
write_failed(wr) ==
    [wr EXCEPT
        !.pc = "idle",
        !.saves = Append(@, "not called"),
        !.results = Append(@, [success |-> FALSE, content |-> <<>>, changes_made |-> 0,
                               sections_completed |-> 0, document_updated |-> FALSE])]

\* write_content up to the first fragment: _write_from_request opens the
\* stream; _write_from_plan starts its loop
write_content_start(wr, stream) ==
    LET w1 == [wr EXCEPT !.passes = @ + 1, !.events = <<>>, !.total_content = <<>>,
                         !.sections_completed = 0, !.pass_sections = <<>>,
                         !.section_content = <<>>, !.i = 0]
    IN  IF wr.plan # <<>>
        THEN [w1 EXCEPT !.pc = "loop"]
        ELSE [w1 EXCEPT !.pc = "stream", !.section_name = DocumentContentName,
                        !.opened = stream.fragments,
                        !.pending = stream.fragments, !.stream_raises = stream.raised]

\* _write_from_plan, the head of the loop over enumerate(plan.sections), and
\* _write_section up to the first fragment: the prompt reads
\* section['title'], the header is broadcast, the stream is opened
next_section(wr, stream) ==
    LET plan == wr.plan[1]
    IN  IF wr.i >= Len(plan.sections) THEN [wr EXCEPT !.pc = "save"]
        ELSE IF wr.i < plan.current_step THEN [wr EXCEPT !.i = @ + 1]
        ELSE LET section == plan.sections[wr.i + 1]
                 section_title == dict_get(section, "title", SectionDefaultTitle)
                 section_header == HeadingMark \o section_title \o BlankLine
             IN  IF ~DictHas(section, "title") THEN write_failed(wr)
                 ELSE [send_streaming_update(wr, section_header, section_header,
                                             section_title, TRUE)
                          EXCEPT !.pc = "stream", !.section_name = section_title,
                                 !.section_content = <<>>,
                                 !.generated = Append(@, wr.i),
                                 !.opened = stream.fragments,
                                 !.pending = stream.fragments,
                                 !.stream_raises = stream.raised]

\* the loop over the stream with the snapshot taken before the fragment is added
take_fragment_stale_snapshot(wr) ==
    LET chunk == Head(wr.pending)
        w1 == [wr EXCEPT !.pending = Tail(@), !.chunk = chunk,
                         !.events = Append(@, StreamingUpdate("take", chunk, <<>>,
                                                              wr.section_name, FALSE))]
        w2 == send_streaming_update(w1, chunk, wr.section_content, wr.section_name, FALSE)
    IN  [w2 EXCEPT !.section_content = @ \o chunk]

\* async for chunk in stream_route_request(...): one fragment is taken, added
\* to the content, and forwarded before the generator is resumed
take_fragment(wr) ==
    LET chunk == Head(wr.pending)
        w1 == [wr EXCEPT !.pending = Tail(@), !.chunk = chunk,
                         !.section_content = @ \o chunk,
                         !.events = Append(@, StreamingUpdate("take", chunk, <<>>,
                                                              wr.section_name, FALSE))]
    IN  send_streaming_update(w1, chunk, w1.section_content, wr.section_name, FALSE)

\* _format_section_content
format_section_content(section, content) ==
    HeadingMark \o dict_get(section, "title", SectionDefaultTitle) \o BlankLine
    \o strip(content) \o BlankLine

\* the stream is exhausted or raises: _write_from_request has its content;
\* _write_section returns the formatted section and _write_from_plan adds
\* it and advances plan.current_step; an exception ends write_content
stream_end(wr) ==
    IF wr.stream_raises THEN write_failed(wr)
    ELSE IF wr.plan = <<>>
         THEN [wr EXCEPT !.total_content = wr.section_content, !.sections_completed = 0,
                         !.pc = "save"]
    ELSE [wr EXCEPT
            !.total_content =
                @ \o format_section_content(wr.plan[1].sections[wr.i + 1],
                                            wr.section_content),
            !.sections_completed = @ + 1,
            !.pass_sections = Append(@, wr.i),
            !.plan[1].current_step = wr.i + 1,
            !.i = @ + 1,
            !.pc = "loop"]

\* write_content from the end of the writing on: _save_content_to_document
\* (it catches what update_document raises and only logs a None) and the
\* result
save_and_return(wr, save) ==
    LET saving == wr.document_service /\ wr.document_id # 0
    IN  [wr EXCEPT
            !.pc = "idle",
            !.saves = Append(@, IF saving THEN save ELSE "not called"),
            !.returned = @ \o wr.pass_sections,
            !.results = Append(@,
                [success |-> TRUE,
                 content |-> wr.total_content,
                 changes_made |-> IF wr.plan = <<>> THEN 1 ELSE wr.sections_completed,
                 sections_completed |-> wr.sections_completed,
                 document_updated |-> wr.document_service])]

(***************************************************************************)
(* The writer of one orchestrator under plan creations, plan updates and   *)
(* writer passes, one after the other.  orch[1] is the orchestrator: it    *)
(* records the activities _execute_plan emits for the result of a pass.    *)
(***************************************************************************)
WRInit ==
    /\ agent_state_manager = AgentStateManagerInit
    /\ preview_decision_engine = PreviewUpdateDecisionInit
    /\ llm_router = LLMRouterInit
    /\ agent_config_manager = AgentConfigManagerInit
    /\ orch = OrchestratorsInit
    /\ now = 0
    /\ probe \in {WriterInit(d, ws) : d \in BOOLEAN, ws \in BOOLEAN}

WRFrame ==
    UNCHANGED <<agent_state_manager, preview_decision_engine, llm_router,
                agent_config_manager, now>>

\* _handle_planning with the sections the planner's model gave
WRHandlePlanning(sections) ==
    /\ probe.pc = "idle"
    /\ probe.plannings < MaxPlannings
    /\ probe' = create_or_update_plan(probe, sections)
    /\ UNCHANGED orch
    /\ WRFrame

\* the orchestrator calls write_content
WRWriteContent(stream) ==
    /\ probe.pc = "idle"
    /\ probe.passes < MaxPasses
    /\ probe' = write_content_start(probe, stream)
    /\ orch' = [orch EXCEPT ![1] = emit_activity(@, "writer", "Generating document content",
                                                 "in_progress")]
    /\ WRFrame

\* the result of the pass that has just ended, if it has, reaches _execute_plan
Reported(wr_after, wr_before) ==
    IF Len(wr_after.results) > Len(wr_before.results)
    THEN [orch EXCEPT ![1] = report_writing([sm |-> agent_state_manager,
                                             pde |-> preview_decision_engine,
                                             oc |-> orch[1]],
                                            Last(wr_after.results)).oc]
    ELSE orch

WRNextSection(stream) ==
    /\ probe.pc = "loop"
    /\ probe' = next_section(probe, stream)
    /\ orch' = Reported(probe', probe)
    /\ WRFrame

WRTakeFragment ==
    /\ probe.pc = "stream"
    /\ probe.pending # <<>>
    /\ probe' = take_fragment(probe)
    /\ UNCHANGED orch
    /\ WRFrame

WRStreamEnd ==
    /\ probe.pc = "stream"
    /\ probe.pending = <<>>
    /\ probe' = stream_end(probe)
    /\ orch' = Reported(probe', probe)
    /\ WRFrame

WRSaveAndReturn(save) ==
    /\ probe.pc = "save"
    /\ probe' = save_and_return(probe, save)
    /\ orch' = Reported(probe', probe)
    /\ WRFrame

WRNext ==
    \/ \E sections \in SectionLists : WRHandlePlanning(sections)
    \/ \E stream \in WriterStreams : WRWriteContent(stream)
    \/ \E stream \in WriterStreams : WRNextSection(stream)
    \/ WRTakeFragment
    \/ WRStreamEnd
    \/ \E save \in SaveOutcomes : WRSaveAndReturn(save)

SpecWriter == WRInit /\ [][WRNext]_vars

(***************************************************************************)
(* Claims about the state manager                                          *)
(***************************************************************************)
\* The allowed-transition table as the documentation states it.
DocumentedTable ==
    {<<IDLE, ANALYZING>>,
     <<ANALYZING, PLANNING>>, <<ANALYZING, WRITING>>, <<ANALYZING, ERROR>>,
     <<PLANNING, WRITING>>, <<PLANNING, ERROR>>,
     <<WRITING, REVIEWING>>, <<WRITING, UPDATING_PREVIEW>>, <<WRITING, ERROR>>,
     <<REVIEWING, WRITING>>, <<REVIEWING, UPDATING_PREVIEW>>,
     <<REVIEWING, WAITING_FEEDBACK>>, <<REVIEWING, ERROR>>,
     <<UPDATING_PREVIEW, IDLE>>, <<UPDATING_PREVIEW, WAITING_FEEDBACK>>,
     <<WAITING_FEEDBACK, ANALYZING>>, <<WAITING_FEEDBACK, IDLE>>,
     <<ERROR, IDLE>>, <<ERROR, ANALYZING>>}

\* C3: a transition_to call whose target is not in the allowed-transition
\* table entry of the current state is rejected: the current state, the
\* change-log and the recorded actor stay as they were.
C3_IllegalTransitionRejected ==
    [][\A s \in AgentState, c \in Callers :
          (/\ SMTransitionTo(s, c[1], c[2])
           /\ <<agent_state_manager.current_state, s>> \notin DocumentedTable)
          => /\ agent_state_manager'.current_state = agent_state_manager.current_state
             /\ agent_state_manager'.state_history = agent_state_manager.state_history
             /\ agent_state_manager'.current_agent = agent_state_manager.current_agent]_vars

\* C4: for every pair (current state, target) can_transition_to returns true
\* exactly when the pair is in the documented table (so never for
\* target = current state), and the call changes nothing of the state manager.
C4_CanTransitionIffInTable ==
    [][\A s \in AgentState :
          SMCanTransitionTo(s)
          => /\ probe'.ret = (<<agent_state_manager.current_state, s>> \in DocumentedTable)
             /\ (s = agent_state_manager.current_state => probe'.ret = FALSE)
             /\ agent_state_manager' = agent_state_manager]_vars

C4_Witness ==
    /\ probe.op = "can_transition_to"
    /\ agent_state_manager.current_state = REVIEWING
    /\ probe.new_state = WAITING_FEEDBACK
    /\ probe.ret = TRUE

\* The change-log is a chain from Idle to the current state.
LogIsChain(sm) ==
    LET h == sm.state_history
    IN  /\ h # <<>> => h[1].from_state = IDLE /\ Last(h).to_state = sm.current_state
        /\ h = <<>> => sm.current_state = IDLE
        /\ \A i \in 2..Len(h) : h[i].from_state = h[i - 1].to_state

\* C5: a transition_to call that changes the state appends exactly one entry
\* {timestamp, from = state before the call, to = new state, actor, reason};
\* a call whose target is the current state changes nothing; so after any
\* sequence of calls the log is a chain from Idle to the current state.
C5_LogExactAppendOnly ==
    [][\A s \in AgentState, c \in Callers :
          SMTransitionTo(s, c[1], c[2])
          => /\ IF s = agent_state_manager.current_state
                THEN agent_state_manager' = agent_state_manager
                ELSE /\ agent_state_manager'.current_state = s
                     /\ agent_state_manager'.current_agent = c[1]
                     /\ agent_state_manager'.state_history =
                           Append(agent_state_manager.state_history,
                                  [timestamp |-> now,
                                   from_state |-> agent_state_manager.current_state,
                                   to_state |-> s,
                                   agent |-> c[1],
                                   message |-> c[2]])
             /\ LogIsChain(agent_state_manager')]_vars

C5_Witness ==
    LET h == agent_state_manager.state_history
    IN  /\ Len(h) >= 2
        /\ h[1].to_state = ANALYZING /\ h[2].from_state = ANALYZING
        /\ h[1].agent # h[2].agent

(***************************************************************************)
(* Claims about the preview policy                                         *)
(***************************************************************************)
\* The documented rules, evaluated in order up to the first that is true.
DocumentedPreviewRules(state, last_action, seconds, changes, user_requested) ==
    \/ user_requested
    \/ state \in {IDLE, WAITING_FEEDBACK}
    \/ changes > 100 /\ seconds >= 30
    \/ last_action = WRITE_CONTENT /\ seconds >= 30
    \/ last_action = REVIEW_CONTENT

\* C6: should_update_preview returns what the documented rules give, for
\* every input; (150 changes, 45 s) gives true; 50 changes with another last
\* action in a state that forces no update and without a user request gives
\* false; the call leaves last_update_time unchanged.
C6_PreviewRules ==
    [][(probe.op = "args" /\ probe'.op = "should_update_preview")
          => LET s == probe'.current_state
                 a == probe'.last_action
                 t == probe'.time_since_last_update
                 c == probe'.content_changes
                 u == probe'.user_requested
             IN  /\ probe'.ret = DocumentedPreviewRules(s, a, t, c, u)
                 /\ (c = 150 /\ t = 45 => probe'.ret = TRUE)
                 /\ (/\ c = 50 /\ a \notin {WRITE_CONTENT, REVIEW_CONTENT}
                     /\ s \notin {IDLE, WAITING_FEEDBACK} /\ ~u
                     => probe'.ret = FALSE)
                 /\ preview_decision_engine'.last_update_time
                       = preview_decision_engine.last_update_time]_vars

C6_Witness ==
    /\ probe.op = "should_update_preview"
    /\ probe.content_changes = 150 /\ probe.time_since_last_update = 45
    /\ probe.current_state = WRITING /\ probe.last_action = ANALYZE_REQUEST
    /\ ~probe.user_requested
    /\ probe.ret = TRUE
    /\ preview_decision_engine.last_update_time # Never

(***************************************************************************)
(* Claims about the configuration                                          *)
(***************************************************************************)
KnownProviders == {"openai", "claude", "google", "mock"}

\* C10: validate_config accepts a configuration exactly when every provider
\* it names (the four categories' and the fallback's) is a known provider,
\* max_retries >= 1 and timeout_seconds >= 5, and gives a reason otherwise.
C10_ValidateIff ==
    probe.op = "validate_config" =>
        LET c == probe.config
        IN  /\ probe.ret[1] =
                  (/\ {c.orchestrator_llm, c.planner_llm, c.writer_llm, c.reviewer_llm,
                       c.fallback_llm} \subseteq KnownProviders
                   /\ c.max_retries >= 1
                   /\ c.timeout_seconds >= 5)
            /\ (~probe.ret[1] => probe.ret[2] # None)

\* A configuration that an update must not bring in: it names an unknown
\* provider, or max_retries < 1, or timeout_seconds < 5.
OutOfRange(c) ==
    \/ ~({c.orchestrator_llm, c.planner_llm, c.writer_llm, c.reviewer_llm, c.fallback_llm}
            \subseteq KnownProviders)
    \/ c.max_retries < 1
    \/ c.timeout_seconds < 5

SameConfigs(before, after) ==
    \A s \in DocumentIds : get_config(after, s) = get_config(before, s)

\* C11: a set_config or update_config call whose configuration names an
\* unknown provider or has max_retries < 1 or timeout_seconds < 5 is
\* rejected: after the call get_config returns, for every session and for
\* the default, the configuration it returned before the call.
C11_InvalidUpdateRejected ==
    [][/\ \A c \in GivenConfigs, d \in DocumentIds :
             (CMSetConfig(c, d) /\ OutOfRange(c))
             => SameConfigs(agent_config_manager, agent_config_manager')
       /\ \A u \in GivenUpdates, d \in DocumentIds :
             LET new_config ==
                     from_dict(dict_update(to_dict(get_config(agent_config_manager, d)), u))
             IN  (/\ CMUpdateConfig(u, d)
                  /\ ~new_config.raised
                  /\ OutOfRange(new_config.config[1]))
                 => SameConfigs(agent_config_manager, agent_config_manager')]_vars

\* C12: for every configuration c, from_dict(to_dict(c)) does not raise and
\* equals c in every one of the twelve fields, to_dict(c) has exactly the
\* twelve fields, and c is the same after to_dict as before.
C12_RoundTrip ==
    [][(probe.op = "args" /\ probe'.op = "round_trip")
          => /\ probe'.config = probe.config
             /\ Len(probe'.exchanged) = Len(AgentConfigFields)
             /\ ~probe'.back[1].raised
             /\ \A j \in 1..Len(AgentConfigFields) :
                   /\ probe'.exchanged[j][1] = AgentConfigFields[j]
                   /\ probe'.back[1].config[1][AgentConfigFields[j]]
                         = probe.config[AgentConfigFields[j]]
             /\ probe'.back[1].config[1] = probe.config]_vars

C12_Witness ==
    /\ probe.op = "round_trip"
    /\ probe.config.fallback_llm = "unknown-provider"
    /\ probe.config.writer_llm = "openai"
    /\ probe.config.max_retries = 0
    /\ probe.config.timeout_seconds = 4
    /\ probe.back[1].config[1] = probe.config

(***************************************************************************)
(* Claims about the planner                                                *)
(***************************************************************************)
\* A response is unparseable: it is not structured data as a whole, no part
\* of it is a structured block, and none of its lines begins with a list
\* marker.
Unparseable(response) ==
    /\ json_loads(response).raised
    /\ \A i \in 1..Len(response), j \in 1..Len(response) :
          i <= j => json_loads(SubSeq(response, i, j)).raised
    /\ LET lines == split(response, "\n")
       IN  \A k \in 1..Len(lines) :
              /\ ~startswith(strip(lines[k]), <<"-", " ">>)
              /\ ~startswith(strip(lines[k]), <<"*", " ">>)

\* C13: for every unparseable response plan creation gives the plan with
\* exactly the three sections "Introduction", "Main Content", "Conclusion",
\* in that order, and estimated_time = 900.
C13_UnparseableGivesGenericPlan ==
    (probe.op = "create_plan" /\ Unparseable(probe.response))
    => LET plan == probe.plan[1]
       IN  /\ Len(plan.sections) = 3
           /\ plan.sections[1].title = IntroductionTitle
           /\ plan.sections[2].title = MainContentTitle
           /\ plan.sections[3].title = ConclusionTitle
           /\ plan.estimated_time = 900

(***************************************************************************)
(* Claims about the reviewer                                               *)
(***************************************************************************)
ScoreNineOfTen == <<"S", "c", "o", "r", "e", ":", " ", "9", "/", "1", "0">>

RatingThirteen == <<"r", "a", "t", "i", "n", "g", ":", " ", "1", "3">>

\* C14: the extracted score is an integer from 1 to 10: the number captured
\* by the first of the patterns "score: N", "N/10", "rating: N" that
\* matches, raised to 1 and lowered to 10 when outside, and 7 when none
\* matches; "Score: 9/10" gives 9 and "rating: 13" gives 10.
C14_ScoreExtraction ==
    probe.op = "extract_score" =>
        LET captures == score_captures(probe.response)
            matching == {i \in 1..3 : captures[i] # <<>>}
            first == CHOOSE i \in matching : \A j \in matching : i <= j
            n == int(captures[first][1])
        IN  /\ probe.ret \in 1..10
            /\ (matching = {} => probe.ret = 7)
            /\ (matching # {} =>
                   probe.ret = (IF n < 1 THEN 1 ELSE IF n > 10 THEN 10 ELSE n))
            /\ (probe.response = ScoreNineOfTen => probe.ret = 9)
            /\ (probe.response = RatingThirteen => probe.ret = 10)

\* a text in which "N/10" comes before "score: N": the score pattern wins
C14_Witness ==
    /\ probe.op = "extract_score"
    /\ probe.response = <<"9", "/", "1", "0", "S", "c", "o", "r", "e", "0">>
    /\ probe.ret = 1

(***************************************************************************)
(* Claims about the router                                                 *)
(***************************************************************************)
\* The provider a call tries first, and whether the first and the fallback
\* attempt fail (the adapter is not available, or its call raises).
ProbePrimary == get_llm_for_agent(llm_router.config, probe.agent_type)[1]

ProbePrimaryFailed ==
    \/ ProbePrimary \notin llm_router.adapters
    \/ ProbePrimary # "mock" /\ probe.primary_outcome.raised

ProbeFallbackFailed ==
    \/ llm_router.config.fallback_llm \notin llm_router.adapters
    \/ llm_router.config.fallback_llm # "mock" /\ probe.fallback_outcome.raised

\* The adapter whose text the call returns gave the empty text.
ProbeAnswerEmpty ==
    \/ ~ProbePrimaryFailed /\ ProbePrimary # "mock" /\ probe.primary_outcome.text = ""
    \/ /\ ProbePrimaryFailed /\ ~ProbeFallbackFailed
       /\ llm_router.config.fallback_llm # "mock"
       /\ probe.fallback_outcome.text = ""

\* C1 as stated: for every category and every combination of adapter
\* outcomes route_request does not raise and returns a non-empty string, the
\* final apology when primary and fallback both fail.
C1_AlwaysNonEmpty ==
    probe.op = "route_request" =>
        /\ ~probe.result.raised
        /\ probe.result.ret # ""
        /\ probe.result.ret # None
        /\ (ProbePrimaryFailed /\ ProbeFallbackFailed => probe.result.ret = FinalApology)

\* C1 as amended: route_request does not raise and returns a string, the
\* final apology when primary and fallback both fail; the string is
\* non-empty unless the adapter that answered returned the empty text.
C1_NonEmptyUnlessAdapterEmpty ==
    probe.op = "route_request" =>
        /\ ~probe.result.raised
        /\ probe.result.ret # None
        /\ (~ProbeAnswerEmpty => probe.result.ret # "")
        /\ (ProbePrimaryFailed /\ ProbeFallbackFailed => probe.result.ret = FinalApology)

C1_Witness ==
    /\ probe.op = "route_request"
    /\ probe.agent_type = WRITER
    /\ ProbePrimary \in llm_router.adapters /\ ProbePrimaryFailed
    /\ llm_router.config.fallback_llm \in llm_router.adapters /\ ProbeFallbackFailed
    /\ probe.result.ret = FinalApology

\* The adapter calls of the first attempt, and the configured fallback pair
ProbePrimaryCalls ==
    IF ProbePrimary \in llm_router.adapters
    THEN <<get_llm_for_agent(llm_router.config, probe.agent_type)>>
    ELSE <<>>

FallbackPair == <<llm_router.config.fallback_llm, llm_router.config.fallback_model>>

\* C17: the primary adapter is called at most once and never retried, and
\* the fallback is not attempted when the primary succeeds.  Every failure
\* of the primary (its call raises or it is not available) is followed by
\* one attempt with the configured fallback (provider, model), never two:
\* the fallback adapter is called exactly once when it is available and is
\* not the test double; for the test double the attempt is the synthesized
\* apology, and with no fallback adapter it ends in the final apology.
C17_AtMostOneFallback ==
    probe.op = "route_request" =>
        /\ Len(probe.result.invoked) <= 2
        /\ (~ProbePrimaryFailed => probe.result.invoked = ProbePrimaryCalls)
        /\ (/\ ProbePrimaryFailed
            /\ FallbackPair[1] \in llm_router.adapters
            /\ FallbackPair[1] # "mock"
            => probe.result.invoked = ProbePrimaryCalls \o <<FallbackPair>>)
        /\ (/\ ProbePrimaryFailed
            /\ FallbackPair[1] = "mock"
            => /\ probe.result.invoked = ProbePrimaryCalls
               /\ probe.result.ret = MockFallbackApology(probe.messages))
        /\ (/\ ProbePrimaryFailed
            /\ FallbackPair[1] \notin llm_router.adapters
            => /\ probe.result.invoked = ProbePrimaryCalls
               /\ probe.result.ret = FinalApology)

C17_Witness ==
    /\ probe.op = "route_request"
    /\ probe.agent_type = ORCHESTRATOR
    /\ ProbePrimary = "openai"
    /\ probe.primary_outcome.raised
    /\ FallbackPair[1] = "google"
    /\ probe.result.invoked = <<<<"openai", "gemini-2.5-pro">>, <<"google", "mock">>>>
    /\ probe.result.ret = "generated text"

\* What the first attempt of a streaming call has yielded when it failed
ProbePrimaryFragments ==
    IF ProbePrimary \in llm_router.adapters /\ ProbePrimary # "mock"
    THEN probe.primary_outcome.fragments
    ELSE <<>>

\* C18: stream_route_request follows the rules of route_request.  It never
\* ends by raising.  When the primary succeeds, its fragments are yielded
\* and no fallback is attempted.  When the primary is not available or
\* fails: with the test double as fallback the synthesized apology is
\* yielded and the test double is not called; with another available
\* fallback that adapter is called once and its fragments follow, from the
\* start, the ones the primary had yielded; and when the fallback fails or
\* is not available either, the last fragment is the final apology.
C18_StreamSameLogic ==
    probe.op = "stream_route_request" =>
        /\ ~probe.result.raised
        /\ (~ProbePrimaryFailed
               => /\ probe.result.invoked = ProbePrimaryCalls
                  /\ probe.result.fragments
                        = adapter_stream_generate(ProbePrimary, probe.messages,
                                                  probe.primary_outcome).fragments)
        /\ (ProbePrimaryFailed /\ FallbackPair[1] = "mock"
               => /\ probe.result.invoked = ProbePrimaryCalls
                  /\ probe.result.fragments
                        = ProbePrimaryFragments \o <<MockFallbackApology(probe.messages)>>)
        /\ (/\ ProbePrimaryFailed /\ ~ProbeFallbackFailed
            /\ FallbackPair[1] # "mock"
            => /\ probe.result.invoked = ProbePrimaryCalls \o <<FallbackPair>>
               /\ probe.result.fragments
                     = ProbePrimaryFragments \o probe.fallback_outcome.fragments)
        /\ (ProbePrimaryFailed /\ ProbeFallbackFailed
               => /\ probe.result.fragments # <<>>
                  /\ Last(probe.result.fragments) = FinalApology)

(***************************************************************************)
(* Claims about the rule-based classification                              *)
(***************************************************************************)
\* A phrase occurs in a message as words (not inside longer words).
HasPhrase(message, phrase) ==
    Contains(<<" ">> \o message \o <<" ">>, <<" ">> \o phrase \o <<" ">>)

HasAnyPhrase(message, phrases) ==
    \E j \in 1..Len(phrases) : HasPhrase(message, phrases[j])

\* C9: when the response cannot be parsed the classification is decided by
\* the message alone: a short greeting gives a conversational result without
\* planning, writing or review; a message with an authoring word gives
\* writing and review without planning; a question without authoring words
\* gives a conversational result; every other message gives writing and
\* review; requires_planning is always false and requires_review equals
\* requires_writing.
C9_FallbackClassification ==
    (/\ probe.op = "analyze_request" /\ ~probe.response.parsed
     /\ probe.user_message # NoMessage)
    => LET m == strip(lower(probe.user_message))
           a == probe.ret.analysis
           greeting == WordCount(m) <= 3 /\ HasAnyPhrase(m, simple_phrases)
           authoring == HasAnyPhrase(m, document_creation_keywords)
           question == HasAnyPhrase(m, question_patterns)
           writing == IF greeting THEN FALSE
                      ELSE IF authoring THEN TRUE
                      ELSE IF question THEN FALSE
                      ELSE TRUE
       IN  /\ ~probe.ret.raised
           /\ a.requires_writing = writing
           /\ a.requires_review = a.requires_writing
           /\ a.requires_planning = FALSE
           /\ (greeting => a.intent = "conversation")

\* C20: the response of the model is used as the classification only when
\* it is strictly JSON; for every other response the rule-based
\* classification of the message is returned; and the response is never
\* given to eval.
C20_StrictParseOnly ==
    probe.op = "analyze_request" =>
        /\ ~probe.ret.evaluated
        /\ (probe.response.parsed /\ probe.response.json
               => /\ ~probe.ret.raised
                  /\ probe.ret.analysis.intent = "from_model"
                  /\ probe.ret.analysis.requires_writing = probe.response.requires_writing)
        /\ (~probe.response.json /\ probe.user_message # NoMessage
               => /\ ~probe.ret.raised
                  /\ probe.ret.analysis = fallback_analysis(probe.user_message))

(***************************************************************************)
(* Claims about the orchestrator                                           *)
(***************************************************************************)
ErrorActivity == Activity("orchestrator", "Processing failed", "error")

\* C2: whenever a step of process_user_request raises, the call returns to
\* its caller with the result {success: false, error: <message>}, the state
\* machine is in Error when the handler has run, and the activity
\* "Processing failed" with status error is the latest activity and has been
\* given to every registered observer, also after an observer that raises.
C2_FailureIsReturned ==
    [][\A o \in Orchs :
          (orch[o].raised_in = <<>> /\ orch'[o].raised_in # <<>>)
          => /\ orch'[o].pc = "done"
             /\ orch'[o].result # <<>>
             /\ orch'[o].result[1].success = FALSE
             /\ orch'[o].result[1].error # None
             /\ agent_state_manager'.current_state = ERROR
             /\ agent_state_manager'.current_agent = ORCHESTRATOR
             /\ Last(orch'[o].process_activities) = ErrorActivity
             /\ \A i \in 1..Len(orch'[o].activity_callbacks) :
                   /\ orch'[o].received[i] # <<>>
                   /\ Last(orch'[o].received[i]) = ErrorActivity]_vars

C2_Witness ==
    \E o \in Orchs :
        /\ orch[o].raised_in = <<"plan">>
        /\ orch[o].pc = "done"
        /\ orch[o].result[1].success = FALSE
        /\ InList("raises", orch[o].activity_callbacks)
        /\ agent_state_manager.current_state = ERROR
        /\ Last(agent_state_manager.state_history).from_state = PLANNING

NoWork(analysis) ==
    /\ ~analysis.requires_planning
    /\ ~analysis.requires_writing
    /\ ~analysis.requires_review

TaskAgents == {PLANNER, WRITER, REVIEWER}

\* C7: a request that starts in Idle and whose analysis requires no
\* planning, no writing and no review moves the state machine to Analyzing
\* and then to no state other than Idle; the planner, the writer and the
\* reviewer are not called, and no activity of theirs is recorded.
C7_NoWorkRequestOnlyAnalyzes ==
    \A o \in Orchs :
        (/\ orch[o].analysis # <<>>
         /\ NoWork(orch[o].analysis[1])
         /\ orch[o].start_state = <<IDLE>>)
        => /\ orch[o].entered # <<>>
           /\ orch[o].entered[1] = ANALYZING
           /\ \A i \in 1..Len(orch[o].entered) : orch[o].entered[i] \in {ANALYZING, IDLE}
           /\ orch[o].calls = <<>>
           /\ \A i \in 1..Len(orch[o].process_activities) :
                 orch[o].process_activities[i].agent \notin TaskAgents

ExpectedAuthoringCalls ==
    <<[agent |-> WRITER, event |-> "call", plan |-> <<>>],
      [agent |-> WRITER, event |-> "return", plan |-> <<>>],
      [agent |-> REVIEWER, event |-> "call", plan |-> <<>>],
      [agent |-> REVIEWER, event |-> "return", plan |-> <<>>]>>

IsPrefix(s, t) == Len(s) <= Len(t) /\ SubSeq(t, 1, Len(s)) = s

\* C8: for a request that the rule-based classification takes for document
\* authoring, on an orchestrator without a plan, the classification is
\* writing and review without planning; the planner is not called; the
\* writer is called once, without a plan; the reviewer is called once, after
\* the writer has returned; and the result has success = true, whatever the
\* writer and the reviewer report.
C8_AuthoringScenario ==
    \A o \in Orchs :
        (orch[o].analysis # <<>> /\ orch[o].analysis[1].intent = "create_document")
        => /\ orch[o].analysis[1].requires_writing
           /\ ~orch[o].analysis[1].requires_planning
           /\ orch[o].analysis[1].requires_review
           /\ IsPrefix(orch[o].calls, ExpectedAuthoringCalls)
           /\ (orch[o].pc = "done"
               => /\ orch[o].calls = ExpectedAuthoringCalls
                  /\ orch[o].result[1].success = TRUE)

\* C15: a process_user_request call that returns success = true leaves the
\* state machine in Idle at its return, whichever of the plan, write, review
\* and preview-update steps ran, when the requests run one after the other.
C15_SuccessReturnsIdle ==
    [][\A o \in Orchs :
          (/\ orch[o].pc # "done"
           /\ orch'[o].pc = "done"
           /\ orch'[o].result[1].success)
          => /\ agent_state_manager'.current_state = IDLE
             /\ Last(agent_state_manager'.state_history).to_state = IDLE
             /\ Last(orch'[o].entered) = IDLE]_vars

C15_Witness ==
    \E o \in Orchs :
        /\ orch[o].pc = "done"
        /\ orch[o].result[1].success
        /\ orch[o].result[1].preview_ready
        /\ orch[o].entered = <<ANALYZING, PLANNING, WRITING, REVIEWING, UPDATING_PREVIEW, IDLE>>
        /\ agent_state_manager.current_state = IDLE

\* C16: the observers of an orchestrator are called in the order of their
\* registration, every one of them with every activity emitted or updated,
\* also the ones registered after an observer that raises; and an observer
\* that raises does not make the request fail: a request fails only when one
\* of its steps raised, and a request whose steps do not raise returns
\* success = true.
C16_ObserversIsolated ==
    \A o \in Orchs :
        LET n == Len(orch[o].activity_callbacks)
        IN  /\ \A k \in 1..Len(orch[o].call_order) :
                  orch[o].call_order[k] = ((k - 1) % n) + 1
            /\ \A i \in 1..n :
                  /\ orch[o].received[i] = orch[o].received[1]
                  /\ Len(orch[o].call_order) = n * Len(orch[o].received[i])
                  /\ \A a \in 1..Len(orch[o].process_activities) :
                        \E k \in 1..Len(orch[o].received[i]) :
                           orch[o].received[i][k] = orch[o].process_activities[a]
            /\ (orch[o].raised_in # <<>>
                   => orch[o].context[1].user_message = NoMessage)
            /\ (orch[o].pc = "done" /\ orch[o].raised_in = <<>>
                   => orch[o].result[1].success)

C16_Witness ==
    \E o \in Orchs :
        /\ orch[o].activity_callbacks = <<"raises", "records">>
        /\ orch[o].pc = "done"
        /\ orch[o].result[1].success
        /\ Len(orch[o].received[2]) >= 8
        /\ \E k \in 1..Len(orch[o].received[2]) :
              orch[o].received[2][k] =
                 Activity("reviewer", "Reviewing content quality", "completed")

\* C19: every state change a process_user_request call makes is an edge of
\* the allowed-transition table, for every combination of the three flags
\* of the analysis, every preview decision, and when a step raises.
C19_OnlyTableEdges ==
    \A o \in Orchs :
        \A i \in 1..Len(orch[o].entered) :
            <<orch[o].left[i], orch[o].entered[i]>> \in DocumentedTable

PreviewUpdatedMessage == AgentMessage(ORCHESTRATOR, "preview_updated")

\* C21: for every request in which the review step ran, the preview
\* decision is true: the request moves the state machine to
\* UpdatingPreview, the update is recorded, a preview-updated message is
\* queued, and the result has preview_ready = true.
C21_ReviewForcesPreview ==
    \A o \in Orchs :
        (/\ orch[o].pc = "done"
         /\ orch[o].result[1].success
         /\ orch[o].execution_result.content_reviewed)
        => /\ orch[o].result[1].preview_ready
           /\ InList(UPDATING_PREVIEW, orch[o].entered)
           /\ InList(PreviewUpdatedMessage, orch[o].queued)
           /\ preview_decision_engine.last_update_time # Never

\* C22: when a process_user_request call has returned, with success or with
\* failure, none of the activities it emitted is left in_progress.
C22_NoActivityLeftInProgress ==
    \A o \in Orchs :
        orch[o].pc = "done"
        => \A i \in 1..Len(orch[o].process_activities) :
              orch[o].process_activities[i].status # "in_progress"

\* C23: a call returns success = true only when none of its steps ended in
\* error: no activity of a request that returned success has status error.
C23_NoPartialSuccess ==
    \A o \in Orchs :
        (orch[o].pc = "done" /\ orch[o].result[1].success)
        => \A i \in 1..Len(orch[o].process_activities) :
              orch[o].process_activities[i].status # "error"

\* C24: the messages of a call's result are exactly the messages the call
\* added to the outbound queue, in the order it added them, also when calls
\* overlap; and the queue is empty when every call has returned.
C24_OwnMessagesExactlyOnce ==
    /\ \A o \in Orchs :
          orch[o].pc = "done" => orch[o].result[1].messages = orch[o].queued
    /\ ((\A o \in Orchs : orch[o].pc = "done")
           => agent_state_manager.message_queue = <<>>)

\* C25: while at least one process_user_request call has started and not
\* returned, is_busy() is true, also when calls overlap.
C25_BusyWhileRunning ==
    (\E o \in Orchs : orch[o].pc \notin {"constructed", "done"})
    => is_busy(agent_state_manager)

\* C29: when the calls do not overlap and the process started fresh, the
\* preview decision is never true, however much time passes: no preview
\* update is recorded, no call enters UpdatingPreview or queues a
\* preview-updated message, the state at the decision is busy, and no
\* result has preview_ready = true.
C29_FreshProcessNeverUpdatesPreview ==
    /\ preview_decision_engine.last_update_time = Never
    /\ ~InList(PreviewUpdatedMessage, agent_state_manager.message_queue)
    /\ \A i \in 1..Len(agent_state_manager.state_history) :
          agent_state_manager.state_history[i].to_state # UPDATING_PREVIEW
    /\ \A o \in Orchs :
          /\ ~orch[o].should_update
          /\ ~InList(UPDATING_PREVIEW, orch[o].entered)
          /\ ~InList(PreviewUpdatedMessage, orch[o].queued)
          /\ (orch[o].pc = "respond" => is_busy(agent_state_manager))
          /\ (orch[o].pc = "done" /\ orch[o].result[1].success
                => /\ ~orch[o].result[1].preview_ready
                   /\ ~InList(PreviewUpdatedMessage, orch[o].result[1].messages))

C29_Witness ==
    \E o \in Orchs :
        /\ now >= min_update_interval
        /\ orch[o].pc = "done"
        /\ orch[o].result[1].success
        /\ orch[o].execution_result.content_generated
        /\ orch[o].execution_result.content_reviewed
        /\ orch[o].execution_result.changes_made > 0
        /\ ~orch[o].result[1].preview_ready
        /\ Last(agent_state_manager.state_history).from_state = REVIEWING

C8_Witness ==
    \E o \in Orchs :
        /\ orch[o].context = <<[user_message |-> ProposalRequest]>>
        /\ orch[o].analysis # <<>>
        /\ orch[o].analysis[1].intent = "create_document"
        /\ orch[o].pc = "done"
        /\ orch[o].calls = ExpectedAuthoringCalls
        /\ orch[o].result[1].success = TRUE
        /\ \E i \in 1..Len(orch[o].process_activities) :
              /\ orch[o].process_activities[i].agent = "writer"
              /\ orch[o].process_activities[i].status = "error"

(***************************************************************************)
(* Claims about the writer                                                 *)
(***************************************************************************)
\* the index of the last header broadcast among the first k events, or 0
SectionStart(events, k) ==
    LET headers == {j \in 1..k : events[j].is_header}
    IN  IF headers = {} THEN 0 ELSE CHOOSE j \in headers : \A h \in headers : h <= j

\* the fragments taken in the events a+1 .. k, one after the other
RECURSIVE TakenText(_, _, _)
TakenText(events, a, k) ==
    IF k <= a THEN <<>>
    ELSE TakenText(events, a, k - 1)
         \o (IF events[k].kind = "take" THEN events[k].chunk ELSE <<>>)

\* the fragments taken in the events a+1 .. k, as a list
RECURSIVE TakenList(_, _, _)
TakenList(events, a, k) ==
    IF k <= a THEN <<>>
    ELSE TakenList(events, a, k - 1)
         \o (IF events[k].kind = "take" THEN <<events[k].chunk>> ELSE <<>>)

\* C26: within one writer pass with a push-notification collaborator, every
\* fragment taken from the provider route is broadcast before the next one
\* is taken, with the section's name and with the concatenation of the
\* section's fragments up to it as the snapshot; there is no other
\* broadcast of a fragment; and the fragments are taken in the order the
\* route yields them, none left out.
C26_FragmentsForwardedInOrder ==
    (probe.op = "writer" /\ probe.websocket_manager)
    => LET events == probe.events
           n == Len(events)
       IN  /\ \A k \in 1..n :
                 events[k].kind = "take"
                 => /\ k < n
                    /\ events[k + 1] =
                          StreamingUpdate("broadcast", events[k].chunk,
                                          TakenText(events, SectionStart(events, k), k),
                                          events[k].section_name, FALSE)
           /\ \A k \in 1..n :
                 (events[k].kind = "broadcast" /\ ~events[k].is_header)
                 => /\ k > 1
                    /\ events[k - 1].kind = "take"
                    /\ events[k - 1].chunk = events[k].chunk
           /\ (probe.pc = "stream"
                 => TakenList(events, SectionStart(events, n), n) \o probe.pending
                    = probe.opened)

C26_Witness ==
    /\ probe.op = "writer"
    /\ probe.websocket_manager
    /\ probe.pc = "idle"
    /\ probe.results # <<>>
    /\ Last(probe.results).success
    /\ probe.sections_completed = 2
    /\ \E k \in 1..Len(probe.events) :
          probe.events[k] = StreamingUpdate("broadcast", <<"b", " ">>,
                                            <<"a", " ", "b", " ">>, <<"B">>, FALSE)

\* C27: on a plan that is not replaced, the writer opens the stream of a
\* section once, in plan order, and between the passes the cursor is the
\* number of leading sections whose content a successful write result has
\* returned.
C27_CursorCountsReturnedSections ==
    (probe.op = "writer" /\ probe.plan # <<>> /\ probe.plannings = 1)
    => /\ \A j, k \in 1..Len(probe.generated) :
             j < k => probe.generated[j] < probe.generated[k]
       /\ (probe.pc = "idle"
             => /\ probe.plan[1].current_step = Len(probe.returned)
                /\ \A j \in 1..Len(probe.returned) : probe.returned[j] = j - 1)

\* C28: the plan an orchestrator holds has 0 <= current_step <= total_steps
\* and total_steps = number of sections, after any creations, updates and
\* writer passes.
C28_CursorWithinPlan ==
    (probe.op = "writer" /\ probe.plan # <<>>)
    => /\ 0 <= probe.plan[1].current_step
       /\ probe.plan[1].current_step <= probe.plan[1].total_steps
       /\ probe.plan[1].total_steps = Len(probe.plan[1].sections)

SavingActivity == Activity("orchestrator", "Saving content to document", "completed")

\* C30: a write result has document_updated = true only when the
\* persistence collaborator returned an updated document for it, and the
\* orchestrator has emitted the completed activity "Saving content to
\* document" once for each such result and for no other.
C30_SaveReportedOnlyWhenSaved ==
    probe.op = "writer"
    => /\ \A k \in 1..Len(probe.results) :
             probe.results[k].document_updated => probe.saves[k] = "updated"
       /\ Cardinality({a \in 1..Len(orch[1].process_activities) :
                          orch[1].process_activities[a] = SavingActivity})
          = Cardinality({k \in 1..Len(probe.saves) : probe.saves[k] = "updated"})

====
